---- MODULE Spec2Model ----
(***************************************************************************)
(* vidkit: filename parsing and classification, the rendering of the new   *)
(* name, the renaming run of main, the TMDb search, the configuration and  *)
(* its file, the resolution names, the TV providers and the file sizes.    *)
(*                                                                         *)
(* Strings are sequences of one-character strings, so that the regular     *)
(* expressions and replacers of the Go code can be computed character by   *)
(* character.  A filename is a concatenation of at most MaxFrags fragments *)
(* of Frags followed by the extension ".mp4".                              *)
(***************************************************************************)
EXTENDS Integers, Sequences, FiniteSets, TLC

(* ------------------------------ bounds --------------------------------- *)

MaxFrags == 3

(* --------------------------- characters -------------------------------- *)

Digits == <<"0", "1", "2", "3", "4", "5", "6", "7", "8", "9">>

UpperLetters == <<"A", "B", "C", "D", "E", "F", "G", "H", "I", "J", "K", "L", "M",
                  "N", "O", "P", "Q", "R", "S", "T", "U", "V", "W", "X", "Y", "Z">>

LowerLetters == <<"a", "b", "c", "d", "e", "f", "g", "h", "i", "j", "k", "l", "m",
                  "n", "o", "p", "q", "r", "s", "t", "u", "v", "w", "x", "y", "z">>

DigitValue == [c \in {Digits[i] : i \in 1..10} |-> (CHOOSE i \in 1..10 : Digits[i] = c) - 1]

IsDigit(c) == c \in DOMAIN DigitValue

DigitVal(c) == DigitValue[c]

LowerOf ==
    [c \in {UpperLetters[i] : i \in 1..26} |->
        LowerLetters[CHOOSE i \in 1..26 : UpperLetters[i] = c]]

IsUpper(c) == c \in DOMAIN LowerOf

\* unicode.ToLower on the characters that occur
ToLowerChar(c) == IF IsUpper(c) THEN LowerOf[c] ELSE c

(* ------------------------- string helpers ------------------------------ *)

\* s[i..] starts with t
HasPrefixAt(s, i, t) ==
    /\ i + Len(t) - 1 <= Len(s)
    /\ \A k \in 1..Len(t) : s[i + k - 1] = t[k]

\* s[i..j], empty when j < i
Slice(s, i, j) == IF j < i THEN <<>> ELSE SubSeq(s, i, j)

\* strings.TrimSpace
TrimSpace(s) ==
    LET nonsp == {i \in 1..Len(s) : s[i] # " "}
    IN  IF nonsp = {} THEN <<>>
        ELSE LET lo == CHOOSE i \in nonsp : \A j \in nonsp : i <= j
                 hi == CHOOSE i \in nonsp : \A j \in nonsp : j <= i
             IN  SubSeq(s, lo, hi)

\* regexp `\s+` ReplaceAllString(s, " "): every run of spaces becomes one space
RECURSIVE CollapseFrom(_, _)
CollapseFrom(s, i) ==
    IF i > Len(s) THEN <<>>
    ELSE IF s[i] = " " /\ i > 1 /\ s[i - 1] = " " THEN CollapseFrom(s, i + 1)
    ELSE <<s[i]>> \o CollapseFrom(s, i + 1)

CollapseSpaces(s) == CollapseFrom(s, 1)

\* index of the last occurrence of character c in s, 0 when absent
LastIndexOf(s, c) ==
    LET occ == {i \in 1..Len(s) : s[i] = c}
    IN  IF occ = {} THEN 0 ELSE CHOOSE i \in occ : \A j \in occ : j <= i

\* filepath.Base: the last element of the path (no trailing separators occur
\* in the modelled filenames)
Base(p) ==
    IF Len(p) = 0 THEN <<".">>
    ELSE Slice(p, LastIndexOf(p, "/") + 1, Len(p))

\* filepath.Ext: the suffix starting at the last dot of the last path element
Ext(p) ==
    LET d == LastIndexOf(p, ".")
    IN  IF d = 0 \/ d < LastIndexOf(p, "/") THEN <<>> ELSE Slice(p, d, Len(p))

\* strings.TrimSuffix
TrimSuffix(s, suf) ==
    IF Len(suf) <= Len(s) /\ HasPrefixAt(s, Len(s) - Len(suf) + 1, suf)
    THEN Slice(s, 1, Len(s) - Len(suf))
    ELSE s

\* basename := strings.TrimSuffix(filepath.Base(filename), filepath.Ext(filename))
Basename(filename) == TrimSuffix(Base(filename), Ext(filename))

(* ------------------- ExtractMovieInfo (tmdb.go) ------------------------ *)

\* yearPattern `\((\d{4})\)|\[(\d{4})\]|\.(\d{4})\.` matches at position i
YearOpen == <<"(", "[", ".">>
YearClose == <<")", "]", ".">>

YearMatchAt(s, i) ==
    /\ i + 5 <= Len(s)
    /\ \E k \in 1..3 : s[i] = YearOpen[k] /\ s[i + 5] = YearClose[k]
    /\ \A k \in 1..4 : IsDigit(s[i + k])

\* strconv.Atoi of the captured group of the match at position i
YearValueAt(s, i) ==
    DigitVal(s[i + 1]) * 1000 + DigitVal(s[i + 2]) * 100
        + DigitVal(s[i + 3]) * 10 + DigitVal(s[i + 4])

\* FindAllStringSubmatch: start positions of the leftmost non-overlapping matches
RECURSIVE YearMatchesFrom(_, _)
YearMatchesFrom(s, i) ==
    IF i > Len(s) THEN <<>>
    ELSE IF YearMatchAt(s, i) THEN <<i>> \o YearMatchesFrom(s, i + 6)
    ELSE YearMatchesFrom(s, i + 1)

YearMatches(s) == YearMatchesFrom(s, 1)

\* the loop over the matches: the first match whose value is not 0 sets year
RECURSIVE FirstYear(_, _, _)
FirstYear(s, ms, k) ==
    IF k > Len(ms) THEN 0
    ELSE IF YearValueAt(s, ms[k]) # 0 THEN YearValueAt(s, ms[k])
    ELSE FirstYear(s, ms, k + 1)

\* yearPattern.ReplaceAllString(s, " ")
RECURSIVE YearReplaceFrom(_, _)
YearReplaceFrom(s, i) ==
    IF i > Len(s) THEN <<>>
    ELSE IF YearMatchAt(s, i) THEN <<" ">> \o YearReplaceFrom(s, i + 6)
    ELSE <<s[i]>> \o YearReplaceFrom(s, i + 1)

YearReplaceAll(s) == YearReplaceFrom(s, 1)

\* the old strings of the strings.NewReplacer that are replaced by ""
MovieTokens ==
    << <<"1", "0", "8", "0", "p">>,
       <<"7", "2", "0", "p">>,
       <<"4", "8", "0", "p">>,
       <<"3", "6", "0", "p">>,
       <<"h", "2", "6", "4">>,
       <<"x", "2", "6", "4">>,
       <<"H", "D", "R", "i", "p">>,
       <<"B", "R", "R", "i", "p">>,
       <<"B", "l", "u", "R", "a", "y">>,
       <<"W", "E", "B", "-", "D", "L">> >>

\* the old strings of the strings.NewReplacer that are replaced by " "
MoviePunct == {"[", "]", "(", ")", ".", "_"}

\* length of the token that starts at position i, 0 when none does
TokenLenAt(s, i) ==
    LET hit == {k \in 1..Len(MovieTokens) : HasPrefixAt(s, i, MovieTokens[k])}
    IN  IF hit = {} THEN 0
        ELSE Len(MovieTokens[CHOOSE k \in hit : \A m \in hit : k <= m])

\* strings.NewReplacer(...).Replace: one left-to-right pass, no overlapping
\* matches, the replaced text is not scanned again
RECURSIVE ReplacerFrom(_, _)
ReplacerFrom(s, i) ==
    IF i > Len(s) THEN <<>>
    ELSE IF TokenLenAt(s, i) > 0 THEN ReplacerFrom(s, i + TokenLenAt(s, i))
    ELSE IF s[i] \in MoviePunct THEN <<" ">> \o ReplacerFrom(s, i + 1)
    ELSE <<s[i]>> \o ReplacerFrom(s, i + 1)

\* lines 131-152: replacer, TrimSpace, `\s+` -> " "
CleanTitle(s) == CollapseSpaces(TrimSpace(ReplacerFrom(s, 1)))

ExtractMovieInfo(filename) ==
    LET basename == Basename(filename)
        year == FirstYear(basename, YearMatches(basename), 1)
        title == IF year > 0 THEN YearReplaceAll(basename) ELSE basename
    IN  [Title |-> CleanTitle(title), Year |-> year]

(* ------------- ExtractTVShowInfo (specification sections 4.1-4.5) ------ *)

\* 4.3: separators accepted between the parts of a season/episode marker
SepChars == {" ", ".", "_", "-"}

\* index after the run of separators that starts at position i
RECURSIVE SkipSeps(_, _)
SkipSeps(s, i) ==
    IF i <= Len(s) /\ s[i] \in SepChars THEN SkipSeps(s, i + 1) ELSE i

\* `\d{1,2}` at position i: the number of digits taken (greedy), 0 when none
DigitsLenAt(s, i) ==
    IF i <= Len(s) /\ IsDigit(s[i])
    THEN (IF i + 1 <= Len(s) /\ IsDigit(s[i + 1]) THEN 2 ELSE 1)
    ELSE 0

\* base-10 value of the n digits at position i (leading zeros allowed)
NumAt(s, i, n) ==
    IF n = 2 THEN DigitVal(s[i]) * 10 + DigitVal(s[i + 1]) ELSE DigitVal(s[i])

\* case-insensitive literal at position i
HasWordAt(s, i, w) ==
    /\ i + Len(w) - 1 <= Len(s)
    /\ \A k \in 1..Len(w) : ToLowerChar(s[i + k - 1]) = w[k]

\* length of the first alternative of ws (in order) that stands at position i
KeywordLenAt(s, i, ws) ==
    LET hit == {k \in 1..Len(ws) : HasWordAt(s, i, ws[k])}
    IN  IF hit = {} THEN 0
        ELSE Len(ws[CHOOSE k \in hit : \A m \in hit : k <= m])

NoMatch == [ok |-> FALSE, season |-> 0, episode |-> 0, end |-> 0]

\* position after the keyword of ws that stands at position j and, when
\* sepAfterKw, after the separators that follow it; 0 when no keyword stands there
AfterKeyword(s, j, ws, sepAfterKw) ==
    IF KeywordLenAt(s, j, ws) = 0 THEN 0
    ELSE IF sepAfterKw THEN SkipSeps(s, j + KeywordLenAt(s, j, ws))
    ELSE j + KeywordLenAt(s, j, ws)

\* the episode digits at position c (0: the episode keyword was missing)
MarkerEpisode(s, season, c) ==
    IF c = 0 \/ DigitsLenAt(s, c) = 0 THEN NoMatch
    ELSE [ok |-> TRUE, season |-> season,
          episode |-> NumAt(s, c, DigitsLenAt(s, c)), end |-> c + DigitsLenAt(s, c)]

\* the season digits at position a (0: the season keyword was missing), then
\* separators, the episode keyword and the episode digits
MarkerSeason(s, a, kw2, sepAfterKw) ==
    IF a = 0 \/ DigitsLenAt(s, a) = 0 THEN NoMatch
    ELSE MarkerEpisode(s, NumAt(s, a, DigitsLenAt(s, a)),
             AfterKeyword(s, SkipSeps(s, a + DigitsLenAt(s, a)), kw2, sepAfterKw))

\* the marker <kw1><seps><1-2 digits><seps><kw2><seps><1-2 digits> at position j;
\* sepAfterKw tells whether separators may follow the keywords
MarkerAt(s, j, kw1, kw2, sepAfterKw) ==
    MarkerSeason(s, AfterKeyword(s, j, kw1, sepAfterKw), kw2, sepAfterKw)

\* the marker <1-2 digits>x<1-2 digits> at position j
CrossAt(s, j) ==
    LET n1 == DigitsLenAt(s, j)
        n2 == DigitsLenAt(s, j + n1 + 1)
    IN  IF n1 > 0 /\ HasWordAt(s, j + n1, <<"x">>) /\ n2 > 0
        THEN [ok |-> TRUE, season |-> NumAt(s, j, n1),
              episode |-> NumAt(s, j + n1 + 1, n2), end |-> j + n1 + 1 + n2]
        ELSE NoMatch

KwS == << <<"s">> >>
KwE == << <<"e">> >>
KwSeason == << <<"s", "e", "a", "s", "o", "n">>, <<"s">> >>
KwEpisode == << <<"e", "p", "i", "s", "o", "d", "e">>, <<"e", "p">>, <<"e">> >>

\* TVPatterns with the first two patterns swapped
TVPatterns_Swapped == <<"NxMM", "SxxEyy", "SeasonEpisode">>

\* 4.3: the three patterns in their priority order
TVPatterns == <<"SxxEyy", "NxMM", "SeasonEpisode">>

\* the marker of pattern p at position j
PatternMarkerAt(p, s, j) ==
    IF p = "SxxEyy" THEN MarkerAt(s, j, KwS, KwE, FALSE)
    ELSE IF p = "NxMM" THEN CrossAt(s, j)
    ELSE MarkerAt(s, j, KwSeason, KwEpisode, TRUE)

\* the leftmost position i, from i on, such that the marker of pattern p
\* stands after the separators at i; 0 when there is none
RECURSIVE FirstMarkerStart(_, _, _)
FirstMarkerStart(p, s, i) ==
    IF i > Len(s) + 1 THEN 0
    ELSE IF PatternMarkerAt(p, s, SkipSeps(s, i)).ok THEN i
    ELSE FirstMarkerStart(p, s, i + 1)

\* the captures of a match whose marker m stands after the separators at i
Captures(s, i, m) ==
    [matched |-> TRUE, show |-> Slice(s, 1, i - 1),
     season |-> m.season, episode |-> m.episode,
     trailing |-> Slice(s, m.end, Len(s))]

MatchAtStart(p, s, i) ==
    IF i = 0 THEN [matched |-> FALSE]
    ELSE Captures(s, i, PatternMarkerAt(p, s, SkipSeps(s, i)))

\* pattern p on the whole string: the show name is captured non-greedily, so
\* the marker is the leftmost one; the show ends where the separators before
\* the marker begin; the trailing text is everything after the episode digits
PatternMatch(p, s) == MatchAtStart(p, s, FirstMarkerStart(p, s, 1))

\* 4.3: first pattern of ps, from index k on, that matches; 0 when none does
RECURSIVE FirstPattern(_, _, _)
FirstPattern(ps, s, k) ==
    IF k > Len(ps) THEN 0
    ELSE IF PatternMatch(ps[k], s).matched THEN k
    ELSE FirstPattern(ps, s, k + 1)

\* the result of the pattern of index k, no match for k = 0
MatchOfPattern(ps, s, k) ==
    IF k = 0 THEN [matched |-> FALSE] ELSE PatternMatch(ps[k], s)

\* 4.3 TVPatternMatcher
MatchTV(s) == MatchOfPattern(TVPatterns, s, FirstPattern(TVPatterns, s, 1))

\* 4.2 YearExtractor: a 4-digit year in () or [] only
DelimYearAt(s, i) ==
    /\ i + 5 <= Len(s)
    /\ \E k \in 1..2 : s[i] = YearOpen[k] /\ s[i + 5] = YearClose[k]
    /\ \A k \in 1..4 : IsDigit(s[i + k])

RECURSIVE DelimYearsFrom(_, _)
DelimYearsFrom(s, i) ==
    IF i > Len(s) THEN <<>>
    ELSE IF DelimYearAt(s, i) THEN <<i>> \o DelimYearsFrom(s, i + 6)
    ELSE DelimYearsFrom(s, i + 1)

DelimYears(s) == DelimYearsFrom(s, 1)

RECURSIVE DelimYearStrip(_, _)
DelimYearStrip(s, i) ==
    IF i > Len(s) THEN <<>>
    ELSE IF DelimYearAt(s, i) THEN <<" ">> \o DelimYearStrip(s, i + 6)
    ELSE <<s[i]>> \o DelimYearStrip(s, i + 1)

ExtractYear(s) ==
    LET ms == DelimYears(s)
    IN  IF Len(ms) = 0 THEN [year |-> 0, remainder |-> s]
        ELSE [year |-> YearValueAt(s, ms[1]), remainder |-> DelimYearStrip(s, 1)]

\* case-insensitive removal of every occurrence of token t
RECURSIVE RemoveWord(_, _, _)
RemoveWord(s, i, t) ==
    IF i > Len(s) THEN <<>>
    ELSE IF HasWordAt(s, i, t) THEN RemoveWord(s, i + Len(t), t)
    ELSE <<s[i]>> \o RemoveWord(s, i + 1, t)

RECURSIVE RemoveWords(_, _, _)
RemoveWords(s, ts, k) ==
    IF k > Len(ts) THEN s
    ELSE RemoveWords(RemoveWord(s, 1, ts[k]), ts, k + 1)

\* 4.1: the vocabulary of the TitleCleaner (compared in lower case)
CleanerTerms ==
    << <<"1", "0", "8", "0", "p">>, <<"7", "2", "0", "p">>, <<"4", "8", "0", "p">>,
       <<"3", "6", "0", "p">>, <<"h", "2", "6", "4">>, <<"x", "2", "6", "4">>,
       <<"h", "d", "r", "i", "p">>, <<"b", "r", "r", "i", "p">>,
       <<"b", "l", "u", "r", "a", "y">>, <<"w", "e", "b", "-", "d", "l">>,
       <<"h", "d", "t", "v">> >>

\* 4.5 step 6: the quality terms filtered from the episode title
QualityTerms ==
    << <<"1", "0", "8", "0", "p">>, <<"7", "2", "0", "p">>, <<"4", "8", "0", "p">>,
       <<"h", "e", "v", "c">>, <<"h", "2", "6", "4">>, <<"x", "2", "6", "4">>,
       <<"h", "d", "r", "i", "p">>, <<"b", "r", "r", "i", "p">>,
       <<"b", "l", "u", "r", "a", "y">>, <<"w", "e", "b", "-", "d", "l">>,
       <<"h", "d", "t", "v">> >>

\* 4.1 TitleCleaner: tokens removed, structural punctuation to spaces,
\* whitespace collapsed and trimmed
TitleCleaner(s) ==
    LET t == RemoveWords(s, CleanerTerms, 1)
        u == [i \in 1..Len(t) |-> IF t[i] \in MoviePunct THEN " " ELSE t[i]]
    IN  CollapseSpaces(TrimSpace(u))

\* CleanEpisodeTitle without the quality-term filter
CleanEpisodeTitle_NoFilter(trailing) == TitleCleaner(trailing)

\* 4.5 step 6
CleanEpisodeTitle(trailing) == TitleCleaner(RemoveWords(trailing, QualityTerms, 1))

\* 4.5 steps 3-7, for the result m of a matching pattern
TVShowFromMatch(m) ==
    LET y == ExtractYear(m.show)
    IN  [Title |-> TitleCleaner(y.remainder), Year |-> y.year,
         Season |-> m.season, Episode |-> m.episode,
         EpisodeTitle |-> CleanEpisodeTitle(m.trailing)]

\* TVShowFallback with the base filename left as it is
TVShowFallback_Uncleaned(base) ==
    [Title |-> base, Year |-> 0, Season |-> 0, Episode |-> 0, EpisodeTitle |-> <<>>]

\* 4.5 step 2, no pattern matched
TVShowFallback(base) ==
    [Title |-> TitleCleaner(base), Year |-> 0, Season |-> 0, Episode |-> 0,
     EpisodeTitle |-> <<>>]

\* 4.5 steps 2-7 for the matcher's result m
TVShowOf(base, m) == IF m.matched THEN TVShowFromMatch(m) ELSE TVShowFallback(base)

TVShowOfBase(base) == TVShowOf(base, MatchTV(base))

\* 4.5 TVExtractor
ExtractTVShowInfo(filename) == TVShowOfBase(Basename(filename))

(* ----------------------------- inputs ---------------------------------- *)

ExtMp4 == <<".", "m", "p", "4">>

\* fragments of the filenames given to the movie extractor and the cleaner
MovieFrags ==
    { <<"a">>, <<" ">>, <<".">>,
      <<"(", "1", "9", "9", "9", ")">>,
      <<"[", "2", "0", "0", "8", "]">>,
      <<"(", "0", "0", "0", "0", ")">>,
      <<".", "2", "0", "1", "0", ".">>,
      <<"1", "0", "8", "0", "p">>,
      <<"1", "0", "8", "0">>,
      <<"p">>, <<"P">>,
      <<"S", "0", "1", "E", "0", "5">> }

\* fragments of the filenames given to the TV extractor
TVFrags ==
    { <<"a">>, <<" ">>, <<".">>, <<"-">>,
      <<"S", "0", "1", "E", "0", "5">>,
      <<"2", "x", "0", "3">>,
      <<"S", "e", "a", "s", "o", "n", " ", "4", " ", "E", "p", " ", "6">>,
      <<"1", "0", "8", "0", "p">>,
      <<"H", "E", "V", "C">>,
      <<"(", "2", "0", "0", "8", ")">> }

\* fragments of the paths given to processFile
FileFrags ==
    { <<"a">>, <<" ">>,
      <<"S", "0", "1", "E", "0", "5">>,
      <<"2", "x", "0", "3">>,
      <<"1", "0", "8", "0", "p">>,
      <<"(", "2", "0", "0", "8", ")">> }

\* the concatenations of at most n fragments of F
RECURSIVE Concats(_, _)
Concats(F, n) ==
    IF n = 0 THEN {<<>>}
    ELSE LET prev == Concats(F, n - 1)
         IN  prev \cup {p \o f : p \in prev, f \in F}

MovieFilenames == {b \o ExtMp4 : b \in Concats(MovieFrags, MaxFrags)}

TVFilenames == {b \o ExtMp4 : b \in Concats(TVFrags, MaxFrags)}

Paths == {b \o ExtMp4 : b \in Concats(FileFrags, MaxFrags)}

\* the two configuration fields processFile reads before the lookup
Configs == [NoMetadata : BOOLEAN, EnableMetadata : BOOLEAN]

\* the provider types
ProviderTMDb == "tmdb"
ProviderOMDb == "omdb"
ProviderTVMaze == "tvmaze"
ProviderTVDb == "tvdb"

DefaultMovieFormat ==
    <<"{", "t", "i", "t", "l", "e", "}", " ", "(", "{", "y", "e", "a", "r", "}", ")", " ", "[", "{", "r", "e", "s", "o", "l", "u", "t", "i", "o", "n", "}", " ", "{", "c", "o", "d", "e", "c", "}", "]">>

DefaultTVFormat ==
    <<"{", "t", "i", "t", "l", "e", "}", " ", "S", "{", "s", "e", "a", "s", "o", "n", ":", "0", "2", "d", "}", "E", "{", "e", "p", "i", "s", "o", "d", "e", ":", "0", "2", "d", "}", " ", "{", "e", "p", "i", "s", "o", "d", "e", "_", "t", "i", "t", "l", "e", "}", " ", "[", "{", "r", "e", "s", "o", "l", "u", "t", "i", "o", "n", "}", " ", "{", "c", "o", "d", "e", "c", "}", "]">>

DefaultMovieDirectory == <<"{", "g", "e", "n", "r", "e", "}", "/", "{", "t", "i", "t", "l", "e", "}", " ", "(", "{", "y", "e", "a", "r", "}", ")">>

DefaultTVDirectory == <<"{", "g", "e", "n", "r", "e", "}", "/", "{", "t", "i", "t", "l", "e", "}", "/", "S", "e", "a", "s", "o", "n", " ", "{", "s", "e", "a", "s", "o", "n", "}">>

DefaultFileExtensions ==
    { <<".", "m", "p", "4">>,
      <<".", "m", "k", "v">>,
      <<".", "a", "v", "i">>,
      <<".", "m", "o", "v">>,
      <<".", "w", "m", "v">>,
      <<".", "m", "4", "v">>,
      <<".", "m", "p", "g">>,
      <<".", "m", "p", "e", "g">>,
      <<".", "w", "e", "b", "m">>,
      <<".", "f", "l", "v">>,
      <<".", "t", "s">>,
      <<".", "m", "2", "t", "s">>,
      <<".", "m", "t", "s">>,
      <<".", "m", "x", "f">> }

\* config.DefaultConfig; API keys and provider types are whole strings, the
\* texts that are rendered are sequences of characters
DefaultConfig ==
    [TMDbAPIKey |-> "", OMDbAPIKey |-> "", TVDbAPIKey |-> "",
     BatchMode |-> FALSE, Recursive |-> FALSE, LowerCase |-> FALSE,
     SceneStyle |-> FALSE, Separator |-> <<" ">>,
     FileExtensions |-> DefaultFileExtensions,
     NoOverwrite |-> TRUE, NoMetadata |-> FALSE,
     MovieProvider |-> ProviderTMDb, TVProvider |-> ProviderTVMaze,
     MovieFormat |-> DefaultMovieFormat, TVFormat |-> DefaultTVFormat,
     EnableMetadata |-> TRUE,
     MovieDirectory |-> DefaultMovieDirectory, TVDirectory |-> DefaultTVDirectory,
     OrganizeFiles |-> TRUE, PreviewMode |-> FALSE]

(* ------------------------------ state ---------------------------------- *)

VARIABLES
    filename,    \* the path being processed
    cfg,         \* the configuration in force
    pc,          \* where the run stands
    calls,       \* the functions processFile has called, in call order
    tvShowInfo,  \* result of ExtractTVShowInfo
    movieInfo,   \* result of ExtractMovieInfo
    tried,       \* the patterns the TV matcher has tried, in order
    tvMatch,     \* result of the last pattern tried
    once,        \* CleanTitle of the base name
    twice,       \* CleanTitle of once
    meta,        \* the metadata record and the technical info given to the renderer
    name,        \* the path generateFilename or generateTVFilename returned
    fs,          \* the disk: the files on it, the directories made, the renames done
    flags,       \* the command-line flags
    queue,       \* the paths main and processPath have still to visit
    log,         \* what the run printed, line by line
    ret,         \* the error the handler of the current file returned
    search,      \* SearchMovie: its argument, its options, its results and its error
    client,      \* the TMDb client: what it answers and the calls it has received
    provider,    \* what a provider factory returned: the provider and the error
    input,       \* the arguments of the library function that is called
    output       \* what the library function returned

\* the variables of a call of a library function
callVars == <<input, output>>

\* no library function has been called
CallIdle == input = <<>> /\ output = <<>>

\* the variables of the providers
apiVars == <<search, client, provider>>

\* no provider has been made and none has been called
ApiIdle ==
    /\ search = [Title |-> "", Year |-> 0]
    /\ client = [calls |-> <<>>]
    /\ provider = [type |-> "nil", provider |-> "none", err |-> "nil"]

\* the variables of main and processPath
runVars == <<flags, queue, log, ret>>

\* the variables of the renderer and of the renaming
extVars == <<meta, name, fs, runVars, apiVars, callVars>>

vars == <<filename, cfg, pc, calls, tvShowInfo, movieInfo, tried, tvMatch, once, twice,
          extVars>>

\* no file is being renamed and no provider is in use
RunIdle ==
    /\ meta = [Title |-> <<>>]
    /\ name = <<>>
    /\ fs = [files |-> {}, mkdirs |-> {}, renames |-> <<>>]
    /\ flags = [b |-> FALSE]
    /\ queue = <<>>
    /\ log = <<>>
    /\ ret = "nil"
    /\ ApiIdle

\* the renderer has not been called
ExtInit == RunIdle /\ CallIdle

NoTVShow == [Title |-> <<>>, Year |-> 0, Season |-> 0, Episode |-> 0, EpisodeTitle |-> <<>>]

NoMovie == [Title |-> <<>>, Year |-> 0]

InitWith(names, configs) ==
    /\ filename \in names
    /\ cfg \in configs
    /\ pc = "start"
    /\ calls = <<>>
    /\ tvShowInfo = NoTVShow
    /\ movieInfo = NoMovie
    /\ tried = <<>>
    /\ tvMatch = [matched |-> FALSE]
    /\ once = <<>>
    /\ twice = <<>>
    /\ ExtInit

(* --------------------- processFile (main.go) --------------------------- *)

\* media.GetVideoInfo fails: processFile returns the error
ProcessFileProbeError ==
    /\ pc = "start"
    /\ pc' = "failed"
    /\ calls' = <<"GetVideoInfo">>
    /\ UNCHANGED <<filename, cfg, tvShowInfo, movieInfo, tried, tvMatch, once, twice, extVars>>

\* lines 59-62: metadata lookup is switched off
ProcessFileNoMetadata ==
    /\ pc = "start"
    /\ cfg.NoMetadata \/ ~cfg.EnableMetadata
    /\ pc' = "returned"
    /\ calls' = <<"GetVideoInfo">>
    /\ UNCHANGED <<filename, cfg, tvShowInfo, movieInfo, tried, tvMatch, once, twice, extVars>>

\* the TV check passed when one of the two numbers is positive
ProcessFileTV_EitherPositive ==
    /\ pc = "start"
    /\ ~(cfg.NoMetadata \/ ~cfg.EnableMetadata)
    /\ LET tv == ExtractTVShowInfo(filename)
       IN  /\ tv.Season > 0 \/ tv.Episode > 0
           /\ tvShowInfo' = tv
    /\ pc' = "processTVShow"
    /\ calls' = <<"GetVideoInfo", "ExtractTVShowInfo", "processTVShow">>
    /\ UNCHANGED <<filename, cfg, movieInfo, tried, tvMatch, once, twice, extVars>>

\* lines 64-69: the TV check
ProcessFileTV ==
    /\ pc = "start"
    /\ ~(cfg.NoMetadata \/ ~cfg.EnableMetadata)
    /\ LET tv == ExtractTVShowInfo(filename)
       IN  /\ tv.Season > 0 /\ tv.Episode > 0
           /\ tvShowInfo' = tv
    /\ pc' = "processTVShow"
    /\ calls' = <<"GetVideoInfo", "ExtractTVShowInfo", "processTVShow">>
    /\ UNCHANGED <<filename, cfg, movieInfo, tried, tvMatch, once, twice, extVars>>

\* ProcessFileMovie with the movie check made without regard to the TV check
ProcessFileMovie_NoTVCheck ==
    /\ pc = "start"
    /\ ~(cfg.NoMetadata \/ ~cfg.EnableMetadata)
    /\ LET tv == ExtractTVShowInfo(filename)
           mv == ExtractMovieInfo(filename)
       IN  /\ mv.Title # <<>>
           /\ tvShowInfo' = tv
           /\ movieInfo' = mv
    /\ pc' = "processMovie"
    /\ calls' = <<"GetVideoInfo", "ExtractTVShowInfo", "ExtractMovieInfo", "processMovie">>
    /\ UNCHANGED <<filename, cfg, tried, tvMatch, once, twice, extVars>>

\* lines 71-76: not a TV show, a movie title was found
ProcessFileMovie ==
    /\ pc = "start"
    /\ ~(cfg.NoMetadata \/ ~cfg.EnableMetadata)
    /\ LET tv == ExtractTVShowInfo(filename)
           mv == ExtractMovieInfo(filename)
       IN  /\ ~(tv.Season > 0 /\ tv.Episode > 0)
           /\ mv.Title # <<>>
           /\ tvShowInfo' = tv
           /\ movieInfo' = mv
    /\ pc' = "processMovie"
    /\ calls' = <<"GetVideoInfo", "ExtractTVShowInfo", "ExtractMovieInfo", "processMovie">>
    /\ UNCHANGED <<filename, cfg, tried, tvMatch, once, twice, extVars>>

\* line 78: neither
ProcessFileNeither ==
    /\ pc = "start"
    /\ ~(cfg.NoMetadata \/ ~cfg.EnableMetadata)
    /\ LET tv == ExtractTVShowInfo(filename)
           mv == ExtractMovieInfo(filename)
       IN  /\ ~(tv.Season > 0 /\ tv.Episode > 0)
           /\ mv.Title = <<>>
           /\ tvShowInfo' = tv
           /\ movieInfo' = mv
    /\ pc' = "returned"
    /\ calls' = <<"GetVideoInfo", "ExtractTVShowInfo", "ExtractMovieInfo">>
    /\ UNCHANGED <<filename, cfg, tried, tvMatch, once, twice, extVars>>

Init == InitWith(Paths, Configs)

Next ==
    \/ ProcessFileProbeError
    \/ ProcessFileNoMetadata
    \/ ProcessFileTV
    \/ ProcessFileMovie
    \/ ProcessFileNeither

Spec == Init /\ [][Next]_vars

(* ---------------- the movie extractor and the cleaner ------------------ *)

CallExtractMovieInfo ==
    /\ pc = "start"
    /\ movieInfo' = ExtractMovieInfo(filename)
    /\ pc' = "movie_done"
    /\ UNCHANGED <<filename, cfg, calls, tvShowInfo, tried, tvMatch, once, twice, extVars>>

CallCleanTitle ==
    /\ pc = "start"
    /\ once' = CleanTitle(Basename(filename))
    /\ pc' = "cleaned"
    /\ UNCHANGED <<filename, cfg, calls, tvShowInfo, movieInfo, tried, tvMatch, twice, extVars>>

CallCleanTitleAgain ==
    /\ pc = "cleaned"
    /\ twice' = CleanTitle(once)
    /\ pc' = "recleaned"
    /\ UNCHANGED <<filename, cfg, calls, tvShowInfo, movieInfo, tried, tvMatch, once, extVars>>

InitMovie == InitWith(MovieFilenames, {DefaultConfig})

NextMovie == CallExtractMovieInfo \/ CallCleanTitle \/ CallCleanTitleAgain

SpecMovie == InitMovie /\ [][NextMovie]_vars

(* ------------------------ the TV extractor ----------------------------- *)

\* 4.3: the next pattern of the priority list is tried
TryPattern ==
    /\ pc \in {"start", "matching"}
    /\ ~tvMatch.matched
    /\ Len(tried) < Len(TVPatterns)
    /\ LET p == TVPatterns[Len(tried) + 1]
       IN  /\ tried' = Append(tried, p)
           /\ tvMatch' = PatternMatch(p, Basename(filename))
    /\ pc' = "matching"
    /\ UNCHANGED <<filename, cfg, calls, tvShowInfo, movieInfo, once, twice, extVars>>

\* 4.5: a pattern matched, or none is left
FinishExtractTVShowInfo ==
    /\ pc = "matching"
    /\ tvMatch.matched \/ Len(tried) = Len(TVPatterns)
    /\ tvShowInfo' = IF tvMatch.matched THEN TVShowFromMatch(tvMatch)
                     ELSE TVShowFallback(Basename(filename))
    /\ pc' = "tv_done"
    /\ UNCHANGED <<filename, cfg, calls, movieInfo, tried, tvMatch, once, twice, extVars>>

InitTV == InitWith(TVFilenames, {DefaultConfig})

NextTV == TryPattern \/ FinishExtractTVShowInfo

SpecTV == InitTV /\ [][NextTV]_vars

(* ------------------------------ claims --------------------------------- *)

LookupEnabled == ~cfg.NoMetadata /\ cfg.EnableMetadata

IsTVEpisode(tv) == tv.Season > 0 /\ tv.Episode > 0

\* C1: with metadata lookup enabled, a processed file takes exactly one of
\* the TV path (season > 0 and episode > 0), the movie path (otherwise, when
\* the movie title is not empty) or neither; the TV check comes first and a
\* file on the TV path never reaches the movie extractor or the movie lookup.
C1_OnePath ==
    (LookupEnabled /\ pc \notin {"start", "failed"}) =>
        LET tv == ExtractTVShowInfo(filename)
            mv == ExtractMovieInfo(filename)
        IN  /\ pc \in {"processTVShow", "processMovie", "returned"}
            /\ (pc = "processTVShow") = IsTVEpisode(tv)
            /\ (pc = "processMovie") = (~IsTVEpisode(tv) /\ mv.Title # <<>>)
            /\ (pc = "returned") = (~IsTVEpisode(tv) /\ mv.Title = <<>>)
            /\ Len(calls) >= 2 /\ calls[2] = "ExtractTVShowInfo"
            /\ \A i \in 1..Len(calls) : calls[i] = "ExtractMovieInfo" => i > 2
            /\ pc = "processTVShow" =>
                  \A i \in 1..Len(calls) : calls[i] \notin {"ExtractMovieInfo", "processMovie"}
            /\ pc = "processMovie" =>
                  \A i \in 1..Len(calls) : calls[i] # "processTVShow"

\* a file on the TV path for which the movie extractor would give a title
C1_Witness ==
    /\ pc = "processTVShow"
    /\ LookupEnabled
    /\ ExtractMovieInfo(filename).Title # <<>>

\* C2: for a filename that matches a season/episode pattern, ExtractMovieInfo
\* returns the empty title and year 0.
C2_TVPrecedence ==
    (pc = "movie_done" /\ MatchTV(Basename(filename)).matched) =>
        (movieInfo.Title = <<>> /\ movieInfo.Year = 0)

\* C3: a 4-digit run that is not enclosed in () or [] is never taken as the
\* year: without a year in () or [] the movie extractor returns year 0.
C3_BareYearIgnored ==
    (pc = "movie_done" /\ DelimYears(Basename(filename)) = <<>>) =>
        movieInfo.Year = 0

\* C4: with several years in () or [] the movie extractor returns the
\* leftmost one and removes every one of them from the title, each replaced
\* by one space.
C4_LeftmostYear ==
    LET base == Basename(filename)
        ys == DelimYears(base)
    IN  (pc = "movie_done" /\ Len(ys) >= 2) =>
            /\ movieInfo.Year = YearValueAt(base, ys[1])
            /\ movieInfo.Title = CleanTitle(DelimYearStrip(base, 1))

\* C5: without a year in () or [] and without a TV pattern, ExtractMovieInfo
\* returns the base filename unchanged as title, and year 0.
C5_VerbatimTitle ==
    LET base == Basename(filename)
    IN  (pc = "movie_done" /\ DelimYears(base) = <<>> /\ ~MatchTV(base).matched) =>
            (movieInfo.Title = base /\ movieInfo.Year = 0)

\* C6: title cleaning is idempotent, cleaning the cleaned title gives the
\* cleaned title again.
C6_CleanIdempotent == pc = "recleaned" => twice = once

\* case-insensitive strings.Contains
ContainsWord(s, w) == \E i \in 1..Len(s) : HasWordAt(s, i, w)

\* C7: the cleaned title contains none of the vocabulary tokens, in any
\* letter case.
C7_NoTokenLeft ==
    pc = "cleaned" => \A k \in 1..Len(CleanerTerms) : ~ContainsWord(once, CleanerTerms[k])

PatternOrder == <<"SxxEyy", "NxMM", "SeasonEpisode">>

\* the indexes of the patterns of PatternOrder that match s
Matching(s) == {k \in 1..3 : PatternMatch(PatternOrder[k], s).matched}

\* C8: the patterns are tried in the order SxxEyy, NxMM, Season/Episode; a
\* pattern is tried only when no earlier one matched, and the result is the
\* one of the first pattern that matches.
C8_FirstPatternWins ==
    LET base == Basename(filename)
        ms == Matching(base)
    IN  /\ \A k \in 1..Len(tried) :
              /\ k <= 3 /\ tried[k] = PatternOrder[k]
              /\ \A j \in 1..(k - 1) : j \notin ms
        /\ pc = "tv_done" =>
              /\ tvShowInfo = ExtractTVShowInfo(filename)
              /\ IF ms = {} THEN Len(tried) = 3 /\ ~tvMatch.matched
                 ELSE LET first == CHOOSE k \in ms : \A j \in ms : k <= j
                      IN  /\ Len(tried) = first
                          /\ tvMatch = PatternMatch(PatternOrder[first], base)
                          /\ tvShowInfo = TVShowFromMatch(tvMatch)

\* a filename that SxxEyy and NxMM both match, with different results
C8_Witness ==
    LET base == Basename(filename)
    IN  /\ pc = "tv_done"
        /\ PatternMatch("SxxEyy", base).matched
        /\ PatternMatch("NxMM", base).matched
        /\ PatternMatch("NxMM", base).season # PatternMatch("SxxEyy", base).season
        /\ tvShowInfo.Season = PatternMatch("SxxEyy", base).season

\* s[i..] is made of quality terms (any letter case) and characters of seps
RECURSIVE OnlyTermsAndSeps(_, _, _)
OnlyTermsAndSeps(s, i, seps) ==
    IF i > Len(s) THEN TRUE
    ELSE \/ s[i] \in seps /\ OnlyTermsAndSeps(s, i + 1, seps)
         \/ \E k \in 1..Len(QualityTerms) :
               /\ HasWordAt(s, i, QualityTerms[k])
               /\ OnlyTermsAndSeps(s, i + Len(QualityTerms[k]), seps)

C10_NoMatchFallback ==
    LET base == Basename(filename)
    IN  (pc = "tv_done" /\ Matching(base) = {}) =>
            /\ tvShowInfo.Season = 0
            /\ tvShowInfo.Episode = 0
            /\ tvShowInfo.Title = TitleCleaner(base)

\* no pattern matched and the cleaning changed the base filename
C10_Witness ==
    LET base == Basename(filename)
    IN  /\ pc = "tv_done"
        /\ Matching(base) = {}
        /\ tvShowInfo.Season = 0
        /\ tvShowInfo.Title # base
        /\ tvShowInfo.Title # <<>>

(* ------------------- the name renderer (main.go) ----------------------- *)

\* the places at or after i where old stands in s
OccurrencesFrom(s, i, old) ==
    {k \in i..(Len(s) - Len(old) + 1) : s[k] = old[1] /\ HasPrefixAt(s, k, old)}

\* the least element of a non-empty set of numbers
Least(ks) == CHOOSE k \in ks : \A j \in ks : k <= j

\* strings.ReplaceAll for a non-empty old: the occurrences from left to right,
\* none overlapping the one before
RECURSIVE ReplaceAllFrom(_, _, _, _)
ReplaceAllFrom(s, i, old, new) ==
    IF OccurrencesFrom(s, i, old) = {} THEN Slice(s, i, Len(s))
    ELSE Slice(s, i, Least(OccurrencesFrom(s, i, old)) - 1) \o new
           \o ReplaceAllFrom(s, Least(OccurrencesFrom(s, i, old)) + Len(old), old, new)

ReplaceAll(s, old, new) == ReplaceAllFrom(s, 1, old, new)

\* strings.ToLower
ToLower(s) == [i \in 1..Len(s) |-> ToLowerChar(s[i])]

\* fmt.Sprintf("%d", n) for n >= 0
RECURSIVE Itoa(_)
Itoa(n) == IF n < 10 THEN <<Digits[n + 1]>> ELSE Itoa(n \div 10) \o <<Digits[(n % 10) + 1]>>

\* fmt.Sprintf("%d", n) without the padding, in place of Pad2
Pad2_Unpadded(n) == Itoa(n)

\* fmt.Sprintf("%02d", n) for n >= 0
Pad2(n) == IF n < 10 THEN <<"0">> \o Itoa(n) ELSE Itoa(n)

TokTitle == <<"{", "t", "i", "t", "l", "e", "}">>
TokYear == <<"{", "y", "e", "a", "r", "}">>
TokResolution == <<"{", "r", "e", "s", "o", "l", "u", "t", "i", "o", "n", "}">>
TokCodec == <<"{", "c", "o", "d", "e", "c", "}">>
TokSeason02 == <<"{", "s", "e", "a", "s", "o", "n", ":", "0", "2", "d", "}">>
TokSeason == <<"{", "s", "e", "a", "s", "o", "n", "}">>
TokEpisode02 == <<"{", "e", "p", "i", "s", "o", "d", "e", ":", "0", "2", "d", "}">>
TokEpisode == <<"{", "e", "p", "i", "s", "o", "d", "e", "}">>
TokEpisodeTitle == <<"{", "e", "p", "i", "s", "o", "d", "e", "_", "t", "i", "t", "l", "e", "}">>

\* lines 331-334 and 443-446: the year, empty when it is not known
YearStr(year) == IF year > 0 THEN Itoa(year) ELSE <<>>

\* SubstituteMovie that also removes a placeholder it does not know
SubstituteMovie_DropUnknown(format, m) ==
    ReplaceAll(
      ReplaceAll(
        ReplaceAll(
          ReplaceAll(
            ReplaceAll(format, TokTitle, m.Title),
            TokYear, YearStr(m.Year)),
          TokResolution, m.Resolution),
        TokCodec, m.Codec),
      <<"{", "i", "n", "v", "a", "l", "i", "d", "_", "v", "a", "r", "i", "a", "b", "l", "e", "}">>, <<>>)

\* lines 325-341: the placeholders of a movie template, one ReplaceAll after
\* the other
SubstituteMovie(format, m) ==
    ReplaceAll(
      ReplaceAll(
        ReplaceAll(
          ReplaceAll(format, TokTitle, m.Title),
          TokYear, YearStr(m.Year)),
        TokResolution, m.Resolution),
      TokCodec, m.Codec)

\* lines 462-465: the episode title, "Episode N" when there is none
EpisodeTitleOf(m) ==
    IF m.EpisodeTitle = <<>> THEN <<"E", "p", "i", "s", "o", "d", "e", " ">> \o Itoa(m.Episode) ELSE m.EpisodeTitle

\* lines 449-459: season and episode, the padded placeholder before the plain
SubstituteSeasonEpisode(n, m) ==
    ReplaceAll(
      ReplaceAll(
        ReplaceAll(
          ReplaceAll(n, TokSeason02, Pad2(m.Season)),
          TokSeason, Itoa(m.Season)),
        TokEpisode02, Pad2(m.Episode)),
      TokEpisode, Itoa(m.Episode))

\* lines 437-472: the placeholders of a TV template
SubstituteTV(format, m) ==
    ReplaceAll(
      ReplaceAll(
        ReplaceAll(
          SubstituteSeasonEpisode(
            ReplaceAll(
              ReplaceAll(format, TokTitle, m.Title),
              TokYear, YearStr(m.Year)),
            m),
          TokEpisodeTitle, EpisodeTitleOf(m)),
        TokResolution, m.Resolution),
      TokCodec, m.Codec)

\* lines 343-346 and 474-477
ApplyLowerCase(n, c) == IF c.LowerCase THEN ToLower(n) ELSE n

\* lines 348-351 and 479-482
ApplySeparator(n, c) ==
    IF c.Separator # <<" ">> THEN ReplaceAll(n, <<" ">>, c.Separator) ELSE n

\* the two passes after the substitution, in the order of the code
PostPasses(n, c) == ApplySeparator(ApplyLowerCase(n, c), c)

\* lines 321-351: the name generateFilename renders
RenderMovieName(format, m, c) == PostPasses(SubstituteMovie(format, m), c)

\* lines 433-482: the name generateTVFilename renders
RenderTVName(format, m, c) == PostPasses(SubstituteTV(format, m), c)

(* ---------------- the target directory (main.go) ----------------------- *)

\* filepath.Dir of a path without a trailing slash
Dir(p) ==
    LET k == LastIndexOf(p, "/")
    IN  IF k = 0 THEN <<".">> ELSE IF k = 1 THEN <<"/">> ELSE SubSeq(p, 1, k - 1)

\* filepath.Join of a directory and a relative path
Join(dir, rel) ==
    IF dir = <<".">> THEN rel
    ELSE IF dir[Len(dir)] = "/" THEN dir \o rel
    ELSE dir \o <<"/">> \o rel

\* filepath.IsAbs
IsAbs(p) == Len(p) > 0 /\ p[1] = "/"

\* os.Getwd
Cwd == <<"/", "c", "w", "d">>

\* strings.ToUpper of one character
ToUpperChar(c) ==
    IF \E i \in 1..26 : LowerLetters[i] = c
    THEN UpperLetters[CHOOSE i \in 1..26 : LowerLetters[i] = c]
    ELSE c

TokTitle0 == <<"{", "t", "i", "t", "l", "e", "[", "0", "]", "}">>
TokGenre == <<"{", "g", "e", "n", "r", "e", "}">>
TokNetwork == <<"{", "n", "e", "t", "w", "o", "r", "k", "}">>

\* is t a substring of s (strings.Contains)
Contains(s, t) == \E i \in 1..(Len(s) - Len(t) + 1) : HasPrefixAt(s, i, t)

\* lines 363-371 and 496-504: the first letter of the title
SubstituteTitle0(dt, m) ==
    IF Contains(dt, TokTitle0)
    THEN ReplaceAll(dt, TokTitle0,
                    IF Len(m.Title) > 0 THEN <<ToUpperChar(m.Title[1])>> ELSE <<"#">>)
    ELSE dt

\* lines 373-378 and 506-511
GenreOf(m) == IF Len(m.Genres) > 0 THEN m.Genres[1] ELSE <<"U", "n", "k", "n", "o", "w", "n">>

\* lines 513-518
NetworkOf(m) == IF m.Network = <<>> THEN <<"U", "n", "k", "n", "o", "w", "n">> ELSE m.Network

\* lines 357-388: the directory template of a movie
RenderMovieDir(dt, m, c) ==
    PostPasses(
      ReplaceAll(
        SubstituteTitle0(
          ReplaceAll(ReplaceAll(dt, TokTitle, m.Title), TokYear, YearStr(m.Year)),
          m),
        TokGenre, GenreOf(m)),
      c)

\* lines 488-528: the directory template of a TV show, {season} before
\* {season:02d}
RenderTVDir(dt, m, c) ==
    PostPasses(
      ReplaceAll(
        ReplaceAll(
          SubstituteTitle0(
            ReplaceAll(
              ReplaceAll(
                ReplaceAll(ReplaceAll(dt, TokTitle, m.Title), TokYear, YearStr(m.Year)),
                TokSeason, Itoa(m.Season)),
              TokSeason02, Pad2(m.Season)),
            m),
          TokGenre, GenreOf(m)),
        TokNetwork, NetworkOf(m)),
      c)

\* lines 390-400 and 530-540
AbsDir(d) == IF IsAbs(d) THEN d ELSE Join(Cwd, d)

\* lines 353-404
MovieTargetDir(path, m, c) ==
    IF c.OrganizeFiles /\ c.MovieDirectory # <<>>
    THEN AbsDir(RenderMovieDir(c.MovieDirectory, m, c))
    ELSE Dir(path)

\* lines 484-544
TVTargetDir(path, m, c) ==
    IF c.OrganizeFiles /\ c.TVDirectory # <<>>
    THEN AbsDir(RenderTVDir(c.TVDirectory, m, c))
    ELSE Dir(path)

\* MakesDir without the test of the preview mode
MakesDir_InPreview(c) == c.OrganizeFiles

\* lines 406-413 and 546-553: MkdirAll is called
MakesDir(c) == c.OrganizeFiles /\ ~c.PreviewMode

\* lines 406-416 and 546-556: the directory is made unless the run is a
\* preview; the original directory is the fallback when MkdirAll fails
FinalDir(path, dir, c, mkdirOk) ==
    IF MakesDir(c) /\ ~mkdirOk THEN Dir(path) ELSE dir

MkdirAll(disk, dir, c, mkdirOk) ==
    IF MakesDir(c) /\ mkdirOk THEN [disk EXCEPT !.mkdirs = @ \cup {dir}] ELSE disk

\* the outcomes of MkdirAll, when it is called
MkdirOutcomes(c) == IF MakesDir(c) THEN BOOLEAN ELSE {TRUE}

\* lines 307-417: the path generateFilename returns
generateFilename(path, m, c, mkdirOk) ==
    Join(FinalDir(path, MovieTargetDir(path, m, c), c, mkdirOk),
         RenderMovieName(c.MovieFormat, m, c) \o Ext(path))

\* lines 419-557: the path generateTVFilename returns
generateTVFilename(path, m, c, mkdirOk) ==
    Join(FinalDir(path, TVTargetDir(path, m, c), c, mkdirOk),
         RenderTVName(c.TVFormat, m, c) \o Ext(path))

(* ----------------------- rendering a template -------------------------- *)

\* placeholders the renderers do not know, and one that is never closed
UnknownInvalid == <<"{", "i", "n", "v", "a", "l", "i", "d", "_", "v", "a", "r", "i", "a", "b", "l", "e", "}">>
UnknownTitleCase == <<"{", "T", "i", "t", "l", "e", "}">>
UnclosedTitle == <<"{", "t", "i", "t", "l", "e">>

\* season and episode with the padded and with the plain placeholders
PaddedFrag == <<" ", "S">> \o TokSeason02 \o <<"E">> \o TokEpisode02

PlainFrag == <<" ">> \o TokSeason \o <<"x">> \o TokEpisode

\* fragments of the templates
RenderFrags ==
    { TokTitle,
      UnknownInvalid,
      UnknownTitleCase,
      UnclosedTitle,
      PaddedFrag,
      PlainFrag }

Templates == Concats(RenderFrags, MaxFrags)

\* the records the providers return together with the probed stream
MetaBreakingBad ==
    [Title |-> <<"B", "r", "e", "a", "k", "i", "n", "g", " ", "B", "a", "d">>, Year |-> 2008, Season |-> 1, Episode |-> 5,
     EpisodeTitle |-> <<"P", "i", "l", "o", "t">>, Resolution |-> <<"1", "0", "8", "0", "p">>, Codec |-> <<"h", "2", "6", "4">>,
     Genres |-> <<<<"D", "r", "a", "m", "a">>>>, Network |-> <<"A", "M", "C">>]

MetaFaceOff ==
    [Title |-> <<"F", "a", "c", "e", "/", "O", "f", "f">>, Year |-> 0, Season |-> 12, Episode |-> 100,
     EpisodeTitle |-> <<>>, Resolution |-> <<>>, Codec |-> <<>>,
     Genres |-> <<>>, Network |-> <<>>]

Metas == {MetaBreakingBad, MetaFaceOff}

\* lowercase and separator as the flags -l, -s and --separator set them
CaseAndSeparator ==
    { <<FALSE, <<" ">>>>, <<FALSE, <<".">>>>, <<TRUE, <<".">>>>, <<TRUE, <<"X">>>> }

\* the configuration fields the renderers read; the files stay in place
\* (--organize=false)
RenderConfigs ==
    { [MovieFormat |-> t, TVFormat |-> t, LowerCase |-> ls[1], Separator |-> ls[2],
       OrganizeFiles |-> FALSE, PreviewMode |-> FALSE,
       MovieDirectory |-> <<>>, TVDirectory |-> <<>>] :
      t \in Templates, ls \in CaseAndSeparator }

VideoPath == <<"/", "v", "/", "a", ".", "m", "p", "4">>

CallGenerateFilename ==
    /\ pc = "start"
    /\ \E mkdirOk \in MkdirOutcomes(cfg) :
          /\ name' = generateFilename(filename, meta, cfg, mkdirOk)
          /\ fs' = MkdirAll(fs, MovieTargetDir(filename, meta, cfg), cfg, mkdirOk)
    /\ pc' = "generateFilename"
    /\ UNCHANGED <<filename, cfg, calls, tvShowInfo, movieInfo, tried, tvMatch, once, twice,
                   meta, runVars, apiVars, callVars>>

CallGenerateTVFilename ==
    /\ pc = "start"
    /\ \E mkdirOk \in MkdirOutcomes(cfg) :
          /\ name' = generateTVFilename(filename, meta, cfg, mkdirOk)
          /\ fs' = MkdirAll(fs, TVTargetDir(filename, meta, cfg), cfg, mkdirOk)
    /\ pc' = "generateTVFilename"
    /\ UNCHANGED <<filename, cfg, calls, tvShowInfo, movieInfo, tried, tvMatch, once, twice,
                   meta, runVars, apiVars, callVars>>

\* the variables of the extractors, at rest
ExtractorsIdle ==
    /\ calls = <<>>
    /\ tvShowInfo = NoTVShow
    /\ movieInfo = NoMovie
    /\ tried = <<>>
    /\ tvMatch = [matched |-> FALSE]
    /\ once = <<>>
    /\ twice = <<>>

InitRender ==
    /\ filename = VideoPath
    /\ cfg \in RenderConfigs
    /\ meta \in Metas
    /\ pc = "start"
    /\ name = <<>>
    /\ fs = [files |-> {}, mkdirs |-> {}, renames |-> <<>>]
    /\ flags = [b |-> FALSE]
    /\ queue = <<>>
    /\ log = <<>>
    /\ ret = "nil"
    /\ ApiIdle
    /\ CallIdle
    /\ ExtractorsIdle

NextRender == CallGenerateFilename \/ CallGenerateTVFilename

SpecRender == InitRender /\ [][NextRender]_vars

(* ------------------------------ C11 ------------------------------------ *)

\* the renderer has returned
Rendered == pc \in {"generateFilename", "generateTVFilename"}

\* the template the renderer that ran was given
FormatUsed == IF pc = "generateFilename" THEN cfg.MovieFormat ELSE cfg.TVFormat

\* what the renderer that ran makes of the template text t
RenderText(t) ==
    IF pc = "generateFilename" THEN RenderMovieName(t, meta, cfg)
    ELSE RenderTVName(t, meta, cfg)

\* the placeholder u stands at position i of the template and is one that the
\* renderers do not know, or one that is never closed
UnknownAt(t, i, u) ==
    /\ HasPrefixAt(t, i, u)
    /\ \/ u \in {UnknownInvalid, UnknownTitleCase}
       \/ /\ u = UnclosedTitle
          /\ \A k \in (i + Len(u))..Len(t) : t[k] # "}"

UnknownPlaceholders == {UnknownInvalid, UnknownTitleCase, UnclosedTitle}

\* the returned path is the text before position i as rendered, then mid,
\* then the text after the placeholder as rendered, then the extension
RenderedAround(t, i, u, mid) ==
    name = Join(Dir(filename),
                RenderText(Slice(t, 1, i - 1)) \o mid
                  \o RenderText(Slice(t, i + Len(u), Len(t))) \o Ext(filename))

\* C11 as stated: a placeholder that the renderer does not know, or a
\* malformed one, stands in the rendered name exactly as it was written in
\* the template, between the renderings of the text before and after it.
C11_UnknownKeptVerbatim ==
    Rendered =>
        \A u \in UnknownPlaceholders : \A i \in 1..Len(FormatUsed) :
            UnknownAt(FormatUsed, i, u) => RenderedAround(FormatUsed, i, u, u)

\* C11 amended: a placeholder that the renderer does not know, or a malformed
\* one, is never substituted, and the text around it is rendered as if it stood
\* alone; the lowercase and separator passes apply to the placeholder as to any
\* other text of the name.
C11_UnknownKeptUpToPasses ==
    Rendered =>
        \A u \in UnknownPlaceholders : \A i \in 1..Len(FormatUsed) :
            UnknownAt(FormatUsed, i, u) =>
                RenderedAround(FormatUsed, i, u, PostPasses(u, cfg))

\* a template with {Title} was rendered in lowercase, and one with
\* {invalid_variable} and a never closed {title with the options off
C11_Witness ==
    /\ pc = "generateFilename"
    /\ \/ /\ cfg.LowerCase
          /\ UnknownAt(cfg.MovieFormat, 1, UnknownTitleCase)
          /\ HasPrefixAt(name, Len(name) - 10, ToLower(UnknownTitleCase))
       \/ /\ ~cfg.LowerCase
          /\ cfg.MovieFormat = UnknownInvalid \o TokTitle \o UnclosedTitle
          /\ name = Join(Dir(filename),
                         UnknownInvalid \o meta.Title \o UnclosedTitle \o Ext(filename))

(* ------------------------------ C12 ------------------------------------ *)

\* the decimal digits of a number below 1000
Decimal(n) ==
    IF n < 10 THEN <<Digits[n + 1]>>
    ELSE IF n < 100 THEN <<Digits[(n \div 10) + 1], Digits[(n % 10) + 1]>>
    ELSE <<Digits[(n \div 100) + 1], Digits[((n \div 10) % 10) + 1], Digits[(n % 10) + 1]>>

\* the number in at least two digits
TwoDigits(n) == IF n < 10 THEN <<"0">> \o Decimal(n) ELSE Decimal(n)

PaddedText == <<" ", "S">> \o TwoDigits(meta.Season) \o <<"E">> \o TwoDigits(meta.Episode)

PlainText == <<" ">> \o Decimal(meta.Season) \o <<"x">> \o Decimal(meta.Episode)

\* the returned path is the text n after the two passes, in the directory of
\* the file and with its extension
NameIs(n) == name = Join(Dir(filename), PostPasses(n, cfg) \o Ext(filename))

\* C12: in a TV template {season:02d} and {episode:02d} give the number in at
\* least two digits, {season} and {episode} the number without padding, and a
\* template with both kinds gets each substituted on its own;
\* "{title} S{season:02d}E{episode:02d}" with season 1 and episode 5 gives
\* "<title> S01E05".
C12_SeasonEpisodePadding ==
    pc = "generateTVFilename" =>
        /\ cfg.TVFormat = TokTitle \o PaddedFrag => NameIs(meta.Title \o PaddedText)
        /\ cfg.TVFormat = PlainFrag => NameIs(PlainText)
        /\ cfg.TVFormat = PaddedFrag \o PlainFrag => NameIs(PaddedText \o PlainText)
        /\ cfg.TVFormat = PlainFrag \o PaddedFrag => NameIs(PlainText \o PaddedText)
        /\ ( /\ cfg.TVFormat = TokTitle \o PaddedFrag
             /\ meta = MetaBreakingBad
             /\ ~cfg.LowerCase /\ cfg.Separator = <<" ">> )
           => name = <<"/", "v", "/", "B", "r", "e", "a", "k", "i", "n", "g", " ", "B", "a", "d", " ", "S", "0", "1", "E", "0", "5", ".", "m", "p", "4">>

\* "{title} S{season:02d}E{episode:02d}" was rendered for season 1, episode 5
C12_Witness ==
    /\ pc = "generateTVFilename"
    /\ cfg.TVFormat = TokTitle \o PaddedFrag
    /\ meta.Season = 1 /\ meta.Episode = 5
    /\ ~cfg.LowerCase /\ cfg.Separator = <<" ">>
    /\ name = <<"/", "v", "/", "B", "r", "e", "a", "k", "i", "n", "g", " ", "B", "a", "d", " ", "S", "0", "1", "E", "0", "5", ".", "m", "p", "4">>

(* ------------------------------ C13 ------------------------------------ *)

\* C13: after the substitution the spaces are replaced by the separator and
\* then the whole result is lowercased, so that with lowercase set the final
\* name holds no uppercase letter, whatever the separator is.
C13_LowercaseLast ==
    (Rendered /\ cfg.LowerCase) => \A i \in 1..Len(name) : ~IsUpper(name[i])

(* ------------------------------ C14 ------------------------------------ *)

UnsafeChars == {"/", "\\", ":", "*", "?", "\"", "<", ">", "|"}

\* the value with every unsafe character replaced by "-"
Sanitized(v) == [i \in 1..Len(v) |-> IF v[i] \in UnsafeChars THEN "-" ELSE v[i]]

\* the record with sanitized values
SanitizedMeta(m) ==
    [m EXCEPT !.Title = Sanitized(@), !.EpisodeTitle = Sanitized(@),
              !.Resolution = Sanitized(@), !.Codec = Sanitized(@)]

\* C14: every filesystem-unsafe character that comes from a substituted
\* metadata value is replaced by "-" in the rendered file name, so that a title
\* adds no path separator and no colon: the returned path is the one rendered
\* from the sanitized values, and it lies in the directory of the file.
C14_UnsafeReplaced ==
    Rendered =>
        /\ name = Join(Dir(filename),
                       (IF pc = "generateFilename"
                        THEN RenderMovieName(cfg.MovieFormat, SanitizedMeta(meta), cfg)
                        ELSE RenderTVName(cfg.TVFormat, SanitizedMeta(meta), cfg))
                       \o Ext(filename))
        /\ Dir(name) = Dir(filename)

(* -------------------- configuration (config.go) ------------------------ *)

\* no error
Nil == "nil"

\* lines 127-135: an empty format gets the default
WithDefaultFormats(c) ==
    [c EXCEPT !.MovieFormat = IF @ = <<>> THEN DefaultMovieFormat ELSE @,
              !.TVFormat = IF @ = <<>> THEN DefaultTVFormat ELSE @]

\* ValidateError that does not look at NoMetadata
ValidateError_IgnoringNoMetadata(c) ==
    IF c.EnableMetadata
    THEN IF c.MovieProvider = ProviderTMDb /\ c.TMDbAPIKey = ""
         THEN "TMDb API key is required for metadata lookup"
         ELSE IF c.MovieProvider = ProviderOMDb /\ c.OMDbAPIKey = ""
         THEN "OMDb API key is required for metadata lookup"
         ELSE IF c.TVProvider = ProviderTVDb /\ c.TVDbAPIKey = ""
         THEN "TVDb API key is required for metadata lookup"
         ELSE Nil
    ELSE Nil

\* lines 137-149: the error ValidateConfig returns, Nil when it returns none
ValidateError(c) ==
    IF ~c.NoMetadata /\ c.EnableMetadata
    THEN IF c.MovieProvider = ProviderTMDb /\ c.TMDbAPIKey = ""
         THEN "TMDb API key is required for metadata lookup"
         ELSE IF c.MovieProvider = ProviderOMDb /\ c.OMDbAPIKey = ""
         THEN "OMDb API key is required for metadata lookup"
         ELSE IF c.TVProvider = ProviderTVDb /\ c.TVDbAPIKey = ""
         THEN "TVDb API key is required for metadata lookup"
         ELSE Nil
    ELSE Nil

\* scene style that makes every separator a dot
WithSceneStyle_Always(c) == IF c.SceneStyle THEN [c EXCEPT !.Separator = <<".">>] ELSE c

\* lines 151-154: scene style makes the separator a dot when it was a space
WithSceneStyle(c) ==
    IF c.SceneStyle /\ c.Separator = <<" ">> THEN [c EXCEPT !.Separator = <<".">>] ELSE c

\* lines 126-157: the configuration as ValidateConfig leaves it
ValidatedConfig(c) ==
    IF ValidateError(c) = Nil THEN WithSceneStyle(WithDefaultFormats(c))
    ELSE WithDefaultFormats(c)

(* ------------------- the provider factories ---------------------------- *)

\* a nil pointer: the factory hands out no provider
NoProvider == "none"

\* the interface value CreateMovieProvider and CreateTVShowProvider return
\* together with the error: its dynamic type ("nil" when the interface is
\* nil itself) and the provider it points to
Made(type, err) ==
    [type |-> type, provider |-> IF err = Nil THEN type ELSE NoProvider, err |-> err]

\* tmdb.go, lines 39-47: tmdb.Init refuses an empty key
NewTMDbProvider(apiKey) ==
    Made("*metadata.TMDbProvider",
         IF apiKey = "" THEN "failed to initialize TMDb client" ELSE Nil)

\* NewOMDbProvider refuses an empty key
NewOMDbProvider(apiKey) ==
    Made("*metadata.OMDbProvider", IF apiKey = "" THEN "OMDb API key is required" ELSE Nil)

\* tvmaze.go, lines 76-81: no key is needed
NewTvMazeProvider == Made("*metadata.TvMazeProvider", Nil)

\* NewTVDbProvider refuses an empty key
NewTVDbProvider(apiKey) ==
    Made("*metadata.TVDbProvider", IF apiKey = "" THEN "TVDb API key is required" ELSE Nil)

\* CreateMovieProvider that falls back to TMDb for a provider it does not know
CreateMovieProvider_DefaultTMDb(c) ==
    IF c.MovieProvider = ProviderOMDb THEN NewOMDbProvider(c.OMDbAPIKey)
    ELSE NewTMDbProvider(c.TMDbAPIKey)

\* the factory: the provider named by cfg.MovieProvider
CreateMovieProvider(c) ==
    IF c.MovieProvider = ProviderTMDb THEN NewTMDbProvider(c.TMDbAPIKey)
    ELSE IF c.MovieProvider = ProviderOMDb THEN NewOMDbProvider(c.OMDbAPIKey)
    ELSE Made("nil", "unsupported movie provider")

\* the factory: the provider named by cfg.TVProvider
CreateTVShowProvider(c) ==
    IF c.TVProvider = ProviderTVMaze THEN NewTvMazeProvider
    ELSE IF c.TVProvider = ProviderTVDb THEN NewTVDbProvider(c.TVDbAPIKey)
    ELSE Made("nil", "unsupported TV show provider")

(* ----------------------- the flags of main ----------------------------- *)

\* the flags as flag.Parse leaves them when none is given
DefaultFlags ==
    [b |-> FALSE, r |-> FALSE, l |-> FALSE, s |-> FALSE, preview |-> FALSE,
     noMetadata |-> FALSE, noOverwrite |-> FALSE,
     movieFormat |-> <<>>, tvFormat |-> <<>>, separator |-> <<>>,
     movieProvider |-> "", tvProvider |-> "",
     organize |-> TRUE, movieDir |-> <<>>, tvDir |-> <<>>,
     args |-> <<>>]

\* lines 654-662 and 665-673: a provider flag with a known value is taken
WithProviderFlags(c, f) ==
    [c EXCEPT !.MovieProvider = IF f.movieProvider \in {ProviderTMDb, ProviderOMDb}
                                THEN f.movieProvider ELSE @,
              !.TVProvider = IF f.tvProvider \in {ProviderTVMaze, ProviderTVDb}
                             THEN f.tvProvider ELSE @]

\* lines 607-673: the flags override the loaded configuration
WithFlags(c, f) ==
    WithProviderFlags(
      [c EXCEPT !.BatchMode = IF f.b THEN TRUE ELSE @,
                !.Recursive = IF f.r THEN TRUE ELSE @,
                !.LowerCase = IF f.l THEN TRUE ELSE @,
                !.SceneStyle = IF f.s THEN TRUE ELSE @,
                !.Separator = IF f.separator # <<>> THEN f.separator ELSE @,
                !.NoOverwrite = IF ~f.noOverwrite THEN FALSE ELSE @,
                !.PreviewMode = IF f.preview THEN TRUE ELSE @,
                !.NoMetadata = IF f.noMetadata THEN TRUE ELSE @,
                !.MovieFormat = IF f.movieFormat # <<>> THEN f.movieFormat ELSE @,
                !.TVFormat = IF f.tvFormat # <<>> THEN f.tvFormat ELSE @],
      f)

\* lines 680-684: the organize flags replace what the configuration held
WithOrganizeFlags(c, f) ==
    [c EXCEPT !.OrganizeFiles = f.organize,
              !.MovieDirectory = f.movieDir,
              !.TVDirectory = f.tvDir]

(* ------------------ the files and directories given -------------------- *)

TVFile == <<"/", "v", "/", "a", " ", "S", "0", "1", "E", "0", "5", ".", "m", "p", "4">>
MovieFile == <<"/", "v", "/", "m", " ", "(", "1", "9", "9", "9", ")", ".", "M", "P", "4">>
TextFile == <<"/", "v", "/", "b", ".", "t", "x", "t">>
MissingPath == <<"/", "n", "o", "p", "e">>
DirD == <<"/", "d">>
SubDir == <<"/", "d", "/", "s", "u", "b">>

\* os.Stat: what stands at the path
Kind(path) ==
    IF path = MissingPath THEN "missing"
    ELSE IF path \in {DirD, SubDir} THEN "dir"
    ELSE "file"

\* os.ReadDir: the entries of a directory, sorted by name
ReadDir(path) ==
    IF path = DirD
    THEN << <<"/", "d", "/", "1", "0", "8", "0", "p", ".", "m", "p", "4">>, <<"/", "d", "/", "a", " ", "S", "0", "1", "E", "0", "5", ".", "m", "p", "4">>, <<"/", "d", "/", "b", ".", "t", "x", "t">>, <<"/", "d", "/", "c", " ", "(", "2", "0", "0", "8", ")", ".", "m", "k", "v">>, SubDir >>
    ELSE << <<"/", "d", "/", "s", "u", "b", "/", "a", " ", "2", "x", "0", "3", ".", "m", "p", "4">> >>

\* a path given on the command line, and an entry of a directory
ArgItem(path) == [path |-> path, arg |-> TRUE]
EntryItem(path) == [path |-> path, arg |-> FALSE]

\* lines 267-274 and 286-293: the extension is one of cfg.FileExtensions
IsSupported(path, c) == ToLower(Ext(path)) \in c.FileExtensions

(* ------------------------------ main ----------------------------------- *)

\* lines 607-673: the configuration after the flags are applied
Flagged == WithFlags(cfg, flags)

\* lines 676-679: ValidateConfig refuses the configuration, main exits with 1
MainBadConfig ==
    /\ pc = "main"
    /\ ValidateError(Flagged) # Nil
    /\ cfg' = ValidatedConfig(Flagged)
    /\ log' = Append(log, <<"Error in configuration", <<>>>>)
    /\ pc' = "exit1"
    /\ UNCHANGED <<filename, calls, tvShowInfo, movieInfo, tried, tvMatch, once, twice,
                   meta, name, fs, flags, queue, ret, apiVars, callVars>>

\* lines 686-691: no path is given, main prints the usage
MainUsage ==
    /\ pc = "main"
    /\ ValidateError(Flagged) = Nil
    /\ flags.args = <<>>
    /\ cfg' = WithOrganizeFlags(ValidatedConfig(Flagged), flags)
    /\ log' = Append(log, <<"Usage", <<>>>>)
    /\ pc' = "usage"
    /\ UNCHANGED <<filename, calls, tvShowInfo, movieInfo, tried, tvMatch, once, twice,
                   meta, name, fs, flags, queue, ret, apiVars, callVars>>

\* lines 607-693: the configuration is set up and the loop over the paths
\* begins
MainConfigure ==
    /\ pc = "main"
    /\ ValidateError(Flagged) = Nil
    /\ flags.args # <<>>
    /\ cfg' = WithOrganizeFlags(ValidatedConfig(Flagged), flags)
    /\ queue' = [i \in 1..Len(flags.args) |-> ArgItem(flags.args[i])]
    /\ pc' = "loop"
    /\ UNCHANGED <<filename, calls, tvShowInfo, movieInfo, tried, tvMatch, once, twice,
                   meta, name, fs, flags, log, ret, apiVars, callVars>>

(* --------------------------- processPath ------------------------------- *)

\* the next path is taken up
AtPath(kind) ==
    /\ pc = "loop"
    /\ queue # <<>>
    /\ Kind(Head(queue).path) = kind

\* lines 238-241 and 695-697: the path cannot be accessed
PathMissing ==
    /\ AtPath("missing")
    /\ log' = Append(log, << IF Head(queue).arg THEN "Error" ELSE "Warning", Head(queue).path >>)
    /\ queue' = Tail(queue)
    /\ UNCHANGED <<filename, cfg, pc, calls, tvShowInfo, movieInfo, tried, tvMatch, once,
                   twice, meta, name, fs, flags, ret, apiVars, callVars>>

\* lines 243-264: the entries of a directory are visited in order; a
\* directory among the entries is entered only when cfg.Recursive is set
PathDirectory ==
    /\ AtPath("dir")
    /\ queue' = IF Head(queue).arg \/ cfg.Recursive
                THEN [i \in 1..Len(ReadDir(Head(queue).path)) |->
                         EntryItem(ReadDir(Head(queue).path)[i])] \o Tail(queue)
                ELSE Tail(queue)
    /\ UNCHANGED <<filename, cfg, pc, calls, tvShowInfo, movieInfo, tried, tvMatch, once,
                   twice, meta, name, fs, flags, log, ret, apiVars, callVars>>

\* lines 266-282 and 299-301: a file of another type is passed over when it
\* is an entry of a directory and is an error when it is an argument
PathUnsupported ==
    /\ AtPath("file")
    /\ ~IsSupported(Head(queue).path, cfg)
    /\ log' = IF Head(queue).arg
              THEN Append(log, <<"Error", Head(queue).path>>)
              ELSE log
    /\ queue' = Tail(queue)
    /\ UNCHANGED <<filename, cfg, pc, calls, tvShowInfo, movieInfo, tried, tvMatch, once,
                   twice, meta, name, fs, flags, ret, apiVars, callVars>>

\* lines 276-278 and 295-296: processFile is called for a supported file
PathFile ==
    /\ AtPath("file")
    /\ IsSupported(Head(queue).path, cfg)
    /\ filename' = Head(queue).path
    /\ log' = Append(log, <<"processFile", Head(queue).path>>)
    /\ ret' = Nil
    /\ pc' = "start"
    /\ UNCHANGED <<cfg, calls, tvShowInfo, movieInfo, tried, tvMatch, once, twice,
                   meta, name, fs, flags, queue, apiVars, callVars>>

\* the error processFile returned
FileError == IF pc = "failed" THEN "error getting video info" ELSE ret

\* FileDone with a loop that ends at the first error
FileDone_StopOnError ==
    /\ pc \in {"failed", "returned", "fileDone"}
    /\ queue # <<>>
    /\ log' = IF FileError # Nil
              THEN Append(log, << IF Head(queue).arg THEN "Error" ELSE "Warning", filename >>)
              ELSE log
    /\ queue' = IF FileError # Nil THEN <<>> ELSE Tail(queue)
    /\ pc' = "loop"
    /\ UNCHANGED <<filename, cfg, calls, tvShowInfo, movieInfo, tried, tvMatch, once, twice,
                   meta, name, fs, flags, ret, apiVars, callVars>>

\* lines 278-280, 296-298 and 695-697: processFile has returned; its error is
\* printed and the loop goes on
FileDone ==
    /\ pc \in {"failed", "returned", "fileDone"}
    /\ queue # <<>>
    /\ log' = IF FileError # Nil
              THEN Append(log, << IF Head(queue).arg THEN "Error" ELSE "Warning", filename >>)
              ELSE log
    /\ queue' = Tail(queue)
    /\ pc' = "loop"
    /\ UNCHANGED <<filename, cfg, calls, tvShowInfo, movieInfo, tried, tvMatch, once, twice,
                   meta, name, fs, flags, ret, apiVars, callVars>>

\* lines 693-699: every path has been visited
MainDone ==
    /\ pc = "loop"
    /\ queue = <<>>
    /\ pc' = "done"
    /\ UNCHANGED <<filename, cfg, calls, tvShowInfo, movieInfo, tried, tvMatch, once, twice,
                   meta, name, fs, runVars, apiVars, callVars>>

(* ------------------- processTVShow and processMovie -------------------- *)

\* what SearchMovie and SearchTVShow return when the lookup succeeds
RunMetas == {MetaBreakingBad}

\* the lines the user may type at the prompt of confirmRename, without the
\* newline that ends them
Answers == {<<"y">>, <<"Y">>, <<"n">>, <<>>, <<"y", "e", "s">>, <<"y", " ", "n">>, <<" ", "y">>}

\* the positions of line from i on that hold a space, and the position after
\* the last character
SpacesFrom(line, i) == {k \in i..Len(line) : line[k] = " "} \cup {Len(line) + 1}

\* the first position of line that holds no space
WordStart(line) == Least({k \in 1..Len(line) : line[k] # " "} \cup {Len(line) + 1})

\* line 562: fmt.Scanln(&response) skips the leading spaces and stores the
\* characters up to the next space or the end of the line; its error (no
\* word, or more text after the word) is not looked at
Scanln(line) == SubSeq(line, WordStart(line), Least(SpacesFrom(line, WordStart(line))) - 1)

\* line 560: the prompt that is printed
RenamePrompt == "Do you want to rename the file? (y/N): "

\* lines 559-564, with an answer of nothing counting as yes
confirmRename_DefaultYes(line) == ToLower(Scanln(line)) \in {<<"y">>, <<>>}

\* lines 559-564
confirmRename(line) == ToLower(Scanln(line)) = <<"y">>

\* lines 159 and 225: cfg.BatchMode || confirmRename() calls confirmRename,
\* which prints the prompt and reads the line, only when the run is not in
\* batch mode
Prompted(line) ==
    IF cfg.BatchMode THEN log ELSE Append(log, <<RenamePrompt, filename, line>>)

\* the handler the current file is in: processTVShow when tv, else
\* processMovie
InHandler(tv) == pc = IF tv THEN "processTVShow" ELSE "processMovie"

\* lines 93 and 182
ProviderFor(tv) == IF tv THEN CreateTVShowProvider(cfg) ELSE CreateMovieProvider(cfg)

\* lines 140 and 206
NewFileName(tv, m, mkdirOk) ==
    IF tv THEN generateTVFilename(filename, m, cfg, mkdirOk)
    ELSE generateFilename(filename, m, cfg, mkdirOk)

\* the disk after generateTVFilename or generateFilename has run
AfterMkdir(tv, m, mkdirOk) ==
    MkdirAll(fs, IF tv THEN TVTargetDir(filename, m, cfg) ELSE MovieTargetDir(filename, m, cfg),
             cfg, mkdirOk)

\* lines 566-569: fileExists; a file of that name may lie on the disk before
\* the run, and it lies there when the run has put it there
ExistsOutcomes(n) == IF n \in fs.files THEN {TRUE} ELSE BOOLEAN

\* os.Rename: the file gets the new name; a file that had it is replaced
Rename(disk, from, to, existed) ==
    [disk EXCEPT !.files = (@ \ {from}) \cup {to},
                 !.renames = Append(@, [from |-> from, to |-> to, overwrote |-> existed])]

\* lines 93-96 and 182-185: no provider can be made
ProviderFailed(tv) ==
    /\ InHandler(tv)
    /\ ProviderFor(tv).err # Nil
    /\ ret' = "failed to create provider"
    /\ pc' = "fileDone"
    /\ UNCHANGED <<filename, cfg, calls, tvShowInfo, movieInfo, tried, tvMatch, once, twice,
                   meta, name, fs, flags, queue, log, apiVars, callVars>>

\* lines 98-104 and 187-193: the lookup fails, a warning is printed and the
\* handler returns no error
LookupFailed(tv) ==
    /\ InHandler(tv)
    /\ ProviderFor(tv).err = Nil
    /\ log' = Append(log, <<"Warning: Failed to look up", filename>>)
    /\ ret' = Nil
    /\ pc' = "fileDone"
    /\ UNCHANGED <<filename, cfg, calls, tvShowInfo, movieInfo, tried, tvMatch, once, twice,
                   meta, name, fs, flags, queue, apiVars, callVars>>

\* the lookup gave m and the new name is generated
Looked(tv, m, mkdirOk) ==
    /\ InHandler(tv)
    /\ ProviderFor(tv).err = Nil
    /\ meta' = m
    /\ name' = NewFileName(tv, m, mkdirOk)

\* lines 147-151 and 213-217: preview mode
Preview(tv) ==
    /\ cfg.PreviewMode
    /\ \E m \in RunMetas, mkdirOk \in MkdirOutcomes(cfg) :
          /\ Looked(tv, m, mkdirOk)
          /\ fs' = AfterMkdir(tv, m, mkdirOk)
    /\ log' = Append(log, <<"[PREVIEW MODE]", filename>>)
    /\ ret' = Nil
    /\ pc' = "fileDone"
    /\ UNCHANGED <<filename, cfg, calls, tvShowInfo, movieInfo, tried, tvMatch, once, twice,
                   flags, queue, apiVars, callVars>>

\* lines 153-157 and 219-223: the target exists and must not be overwritten
TargetExists(tv) ==
    /\ ~cfg.PreviewMode
    /\ cfg.NoOverwrite
    /\ \E m \in RunMetas, mkdirOk \in MkdirOutcomes(cfg) :
          /\ Looked(tv, m, mkdirOk)
          /\ TRUE \in ExistsOutcomes(NewFileName(tv, m, mkdirOk))
          /\ fs' = AfterMkdir(tv, m, mkdirOk)
    /\ log' = Append(log, <<"Skipping rename: Target file already exists", filename>>)
    /\ ret' = Nil
    /\ pc' = "fileDone"
    /\ UNCHANGED <<filename, cfg, calls, tvShowInfo, movieInfo, tried, tvMatch, once, twice,
                   flags, queue, apiVars, callVars>>

\* lines 159-160 and 225-226: the rename is reached when the run is no
\* preview and the target is free or may be overwritten
RenameReached(existed) == ~cfg.PreviewMode /\ ~(cfg.NoOverwrite /\ existed)

\* lines 159-168 and 225-234: the user does not confirm
Declined(tv) ==
    /\ ~cfg.BatchMode
    /\ \E m \in RunMetas, mkdirOk \in MkdirOutcomes(cfg), response \in Answers :
          /\ Looked(tv, m, mkdirOk)
          /\ \E existed \in ExistsOutcomes(NewFileName(tv, m, mkdirOk)) :
                RenameReached(existed)
          /\ ~confirmRename(response)
          /\ fs' = AfterMkdir(tv, m, mkdirOk)
          /\ log' = Prompted(response)
    /\ ret' = Nil
    /\ pc' = "fileDone"
    /\ UNCHANGED <<filename, cfg, calls, tvShowInfo, movieInfo, tried, tvMatch, once, twice,
                   flags, queue, apiVars, callVars>>

\* lines 159-166 and 225-232: batch mode, or the user confirms
Confirmed(response) == cfg.BatchMode \/ confirmRename(response)

\* lines 161-165 and 227-231: the file is renamed
Renamed(tv) ==
    /\ \E m \in RunMetas, mkdirOk \in MkdirOutcomes(cfg), response \in Answers :
          /\ Looked(tv, m, mkdirOk)
          /\ Confirmed(response)
          /\ \E existed \in ExistsOutcomes(NewFileName(tv, m, mkdirOk)) :
                /\ RenameReached(existed)
                /\ fs' = Rename(AfterMkdir(tv, m, mkdirOk), filename,
                                NewFileName(tv, m, mkdirOk), existed)
          /\ log' = Append(Prompted(response), <<"File renamed successfully!", filename>>)
    /\ ret' = Nil
    /\ pc' = "fileDone"
    /\ UNCHANGED <<filename, cfg, calls, tvShowInfo, movieInfo, tried, tvMatch, once, twice,
                   flags, queue, apiVars, callVars>>

\* lines 161-164 and 227-230: os.Rename fails
RenameFailed(tv) ==
    /\ \E m \in RunMetas, mkdirOk \in MkdirOutcomes(cfg), response \in Answers :
          /\ Looked(tv, m, mkdirOk)
          /\ Confirmed(response)
          /\ \E existed \in ExistsOutcomes(NewFileName(tv, m, mkdirOk)) :
                RenameReached(existed)
          /\ fs' = AfterMkdir(tv, m, mkdirOk)
          /\ log' = Prompted(response)
    /\ ret' = "error renaming file"
    /\ pc' = "fileDone"
    /\ UNCHANGED <<filename, cfg, calls, tvShowInfo, movieInfo, tried, tvMatch, once, twice,
                   flags, queue, apiVars, callVars>>

\* lines 81-169
processTVShow ==
    \/ ProviderFailed(TRUE)
    \/ LookupFailed(TRUE)
    \/ Preview(TRUE)
    \/ TargetExists(TRUE)
    \/ Declined(TRUE)
    \/ Renamed(TRUE)
    \/ RenameFailed(TRUE)

\* lines 171-235
processMovie ==
    \/ ProviderFailed(FALSE)
    \/ LookupFailed(FALSE)
    \/ Preview(FALSE)
    \/ TargetExists(FALSE)
    \/ Declined(FALSE)
    \/ Renamed(FALSE)
    \/ RenameFailed(FALSE)

(* --------------------------- a whole run ------------------------------- *)

\* the configuration file holds the defaults and a TMDb key
ConfigWithKey == [DefaultConfig EXCEPT !.TMDbAPIKey = "k"]

\* the configuration file names providers that do not exist
ConfigUnknownProviders ==
    [DefaultConfig EXCEPT !.MovieProvider = "imdb", !.TVProvider = "imdb"]

\* one file is given, with every choice of -b, --preview, --no-overwrite and
\* --organize
OneFileRuns ==
    { [loaded |-> c,
       flags |-> [DefaultFlags EXCEPT !.b = o[1], !.preview = o[2],
                                      !.noOverwrite = o[3], !.organize = o[4],
                                      !.args = <<f>>]] :
      f \in {TVFile, MovieFile},
      c \in {DefaultConfig, ConfigWithKey, ConfigUnknownProviders},
      o \in BOOLEAN \X BOOLEAN \X BOOLEAN \X BOOLEAN }

\* several paths are given in batch mode
BatchRuns ==
    { [loaded |-> ConfigWithKey,
       flags |-> [DefaultFlags EXCEPT !.b = TRUE, !.organize = FALSE, !.r = o[1],
                                      !.noOverwrite = o[2], !.noMetadata = o[3],
                                      !.args = a]] :
      a \in { <<>>, <<DirD, MovieFile>>, <<MissingPath, TVFile>>,
              <<TextFile, MovieFile>>, <<TVFile, DirD>> },
      o \in { <<FALSE, FALSE, FALSE>>, <<TRUE, FALSE, FALSE>>,
              <<FALSE, TRUE, FALSE>>, <<TRUE, FALSE, TRUE>> } }

Runs == OneFileRuns \cup BatchRuns

\* the files on the disk before the run
FilesOnDisk ==
    {TVFile, MovieFile, TextFile} \cup {ReadDir(DirD)[i] : i \in 1..4}
      \cup {ReadDir(SubDir)[1]}

InitRun ==
    /\ \E run \in Runs :
          /\ cfg = run.loaded
          /\ flags = run.flags
    /\ queue = <<>>
    /\ pc = "main"
    /\ filename = <<>>
    /\ meta = [Title |-> <<>>]
    /\ name = <<>>
    /\ fs = [files |-> FilesOnDisk, mkdirs |-> {}, renames |-> <<>>]
    /\ log = <<>>
    /\ ret = Nil
    /\ ApiIdle
    /\ CallIdle
    /\ ExtractorsIdle

NextRun ==
    \/ MainBadConfig
    \/ MainUsage
    \/ MainConfigure
    \/ PathMissing
    \/ PathDirectory
    \/ PathUnsupported
    \/ PathFile
    \/ ProcessFileProbeError
    \/ ProcessFileNoMetadata
    \/ ProcessFileTV
    \/ ProcessFileMovie
    \/ ProcessFileNeither
    \/ processTVShow
    \/ processMovie
    \/ FileDone
    \/ MainDone

SpecRun == InitRun /\ [][NextRun]_vars

(* ------------------------------ C15 ------------------------------------ *)

\* C15: in preview mode nothing on the disk is changed: no file is renamed
\* and no directory is made, in batch mode or not, with or without organize
\* and no-overwrite.
C15_PreviewChangesNothing ==
    flags.preview =>
        /\ fs.renames = <<>>
        /\ fs.mkdirs = {}
        /\ fs.files = FilesOnDisk

\* a TV episode went through processTVShow in preview mode, with batch mode,
\* organize and no-overwrite on, and got its new name
C15_Witness ==
    /\ flags.preview /\ flags.b /\ flags.organize /\ flags.noOverwrite
    /\ cfg.PreviewMode
    /\ pc = "fileDone"
    /\ filename = TVFile
    /\ meta = MetaBreakingBad
    /\ name # <<>>
    /\ log # <<>> /\ log[Len(log)][1] = "[PREVIEW MODE]"

(* ------------------------------ C16 ------------------------------------ *)

\* C16: with the default configuration, where no_overwrite is true, and
\* without the flag --no-overwrite, a rename whose target exists is skipped:
\* no file is ever overwritten.
C16_DefaultNeverOverwrites ==
    ~flags.noOverwrite => \A i \in 1..Len(fs.renames) : ~fs.renames[i].overwrote

(* ------------------------------- C17 ----------------------------------- *)

\* lines 243-301: the supported files processPath reaches from one item: the
\* file itself, the entries of a directory given as an argument, and the
\* entries of a directory below it when cfg.Recursive is set
RECURSIVE FilesUnder(_, _)
FilesUnder(item, c) ==
    IF Kind(item.path) = "file"
    THEN IF IsSupported(item.path, c) THEN {item.path} ELSE {}
    ELSE IF Kind(item.path) = "dir" /\ (item.arg \/ c.Recursive)
    THEN UNION {FilesUnder(EntryItem(ReadDir(item.path)[i]), c) :
                   i \in 1..Len(ReadDir(item.path))}
    ELSE {}

\* the files processFile has been called for
Processed == {log[i][2] : i \in {j \in 1..Len(log) : log[j][1] = "processFile"}}

\* the files the loops have still to reach
Pending == UNION {FilesUnder(queue[i], cfg) : i \in 1..Len(queue)}

\* the files of the whole run
Expected == UNION {FilesUnder(ArgItem(flags.args[i]), cfg) : i \in 1..Len(flags.args)}

\* the messages printed for a file that failed
FailureTags == {"Error", "Warning", "Warning: Failed to look up"}

\* the files a failure was reported for
FailedFiles == {log[i][2] : i \in {j \in 1..Len(log) : log[j][1] \in FailureTags}}

\* the files that were renamed
RenamedFiles == {fs.renames[i].from : i \in 1..Len(fs.renames)}

\* the loops of main and processPath are running or have ended
InLoops == pc \notin {"main", "exit1", "usage"}

\* C17: a failure on one file never stops the batch: no file of the run is
\* dropped, every file is processed or still to come after any failure, all
\* of them are processed when main ends, and a file a failure was reported
\* for is not renamed
C17_BatchContinues ==
    InLoops =>
        /\ Processed \cup Pending = Expected
        /\ (pc = "done" => Processed = Expected)
        /\ FailedFiles \cap RenamedFiles = {}

\* C17 witness: main has ended after a failure was reported for a processed
\* file and a later file was processed and renamed
C17_Witness ==
    /\ pc = "done"
    /\ \E i, j, k \in 1..Len(log) :
          /\ i < j /\ j < k
          /\ log[i][1] \in {"Error", "Warning"}
          /\ log[i][2] \in Processed
          /\ log[j][1] = "processFile"
          /\ log[k][1] = "File renamed successfully!"
          /\ log[k][2] = log[j][2]

(* ------------------------------ C27 ------------------------------------ *)

\* the positions of the log where the confirmation prompt was shown
Prompts == {k \in 1..Len(log) : log[k][1] = RenamePrompt}

\* the positions of the log where a rename is reported
RenameReports == {k \in 1..Len(log) : log[k][1] = "File renamed successfully!"}

\* the whole line typed at prompt k is y, in any case
AnsweredY(k) == ToLower(log[k][3]) = <<"y">>

\* the first word of the line typed at prompt k is y, in any case
FirstWordY(k) == ToLower(Scanln(log[k][3])) = <<"y">>

\* every rename was reported, and happened after a lookup that gave metadata,
\* in a run that looks metadata up, for a file no failure was reported for
RenamedAfterLookup ==
    /\ Cardinality(RenameReports) = Len(fs.renames)
    /\ {log[k][2] : k \in RenameReports} = RenamedFiles
    /\ fs.renames # <<>> =>
          /\ meta \in RunMetas
          /\ ~cfg.NoMetadata
          /\ cfg.EnableMetadata
          /\ RenamedFiles \cap FailedFiles = {}

\* in batch mode the prompt is never shown
BatchNeverPrompts == cfg.BatchMode => Prompts = {}

\* outside batch mode the prompt for the file comes right before its rename,
\* and Yes holds of it
RenamedOnYes(Yes(_)) ==
    ~cfg.BatchMode =>
        \A k \in RenameReports :
            /\ k - 1 \in Prompts
            /\ log[k - 1][2] = log[k][2]
            /\ Yes(k - 1)

\* a file whose prompt Yes does not hold of is not renamed
UntouchedOnOther(Yes(_)) == \A k \in Prompts : ~Yes(k) => log[k][2] \notin RenamedFiles

\* C27 as stated: a file is renamed only after a successful metadata lookup
\* and only when batch mode is on or the user's answer to the prompt is y in
\* any case; any other answer leaves the file untouched, and in batch mode
\* the prompt is never shown
C27_RenameOnlyOnAnswerY ==
    InLoops =>
        /\ RenamedAfterLookup
        /\ BatchNeverPrompts
        /\ RenamedOnYes(AnsweredY)
        /\ UntouchedOnOther(AnsweredY)

\* C27 amended: a file is renamed only after a successful metadata lookup and
\* only when batch mode is on or the first word of the line read at the
\* prompt is y in any case; a line with any other first word, or with none,
\* leaves the file untouched, and in batch mode the prompt is never shown
C27_RenameOnlyOnFirstWordY ==
    InLoops =>
        /\ RenamedAfterLookup
        /\ BatchNeverPrompts
        /\ RenamedOnYes(FirstWordY)
        /\ UntouchedOnOther(FirstWordY)

\* C27 witness: outside batch mode the user typed Y at the prompt and the file
\* was renamed
C27_Witness ==
    /\ ~cfg.BatchMode
    /\ \E k \in RenameReports : k - 1 \in Prompts /\ log[k - 1][3] = <<"Y">>

\* the user typed yes at the prompt and the file kept its name
C27_DeclinedUntouched ==
    /\ pc = "done"
    /\ \E k \in Prompts : log[k][3] = <<"y", "e", "s">> /\ log[k][2] \in fs.files
    /\ fs.renames = <<>>

\* a batch run renamed a file and showed no prompt
C27_BatchRenamed == cfg.BatchMode /\ InLoops /\ fs.renames # <<>> /\ Prompts = {}

(* ===================== TMDbProvider.SearchMovie ======================== *)
(* internal/pkg/metadata/tmdb.go, lines 50-98                              *)

\* what the TMDb client can answer to GetSearchMovies
SearchReplies == {"error", "empty", "found"}

\* the titles and years SearchMovie is called with
SearchTitles == {"Heat", "Zzz"}
SearchYears == {-1, 0, 1995}

\* the release years GetMovieDetails can give; 0 stands for an empty or
\* unparsable ReleaseDate (lines 86-91)
ReleaseYears == {0, 1995}

\* lines 56 and 67: search.Year > 0
HasYear(s) == s.Year > 0

\* SearchMovie without the second search
RetryWithoutYear_Never(s) == FALSE

\* line 67: the search is repeated without the year
RetryWithoutYear(s) == s.Year > 0

\* lines 51-58: the options of the first search; year is <<>> when the map
\* has no "year" key
FirstOptions(s, language) ==
    [language |-> language, year |-> IF HasYear(s) THEN Itoa(s.Year) ELSE <<>>]

\* line 68: delete(options, "year")
DeleteYear(options) == [options EXCEPT !.year = <<>>]

\* what the client answers to a search with these options
ReplyTo(options) == client.reply[options.year # <<>>]

\* lines 60 and 69: p.client.GetSearchMovies(search.Title, options)
GetSearchMovies(title, options) ==
    [client EXCEPT !.calls = Append(@, [fn |-> "GetSearchMovies", title |-> title,
                                        options |-> options])]

\* line 81: p.client.GetMovieDetails(movieID, options)
GetMovieDetails(options) ==
    [client EXCEPT !.calls = Append(@, [fn |-> "GetMovieDetails", title |-> "",
                                        options |-> options])]

\* SearchMovie returns this error
Fails(msg, arg) == search' = [search EXCEPT !.errMsg = msg, !.errArg = arg]

\* lines 51-60: the first search is made and answered
FirstSearch ==
    /\ pc = "SearchMovie"
    /\ ReplyTo(FirstOptions(search, "en")) # "error"
    /\ client' = GetSearchMovies(search.Title, FirstOptions(search, "en"))
    /\ search' = [search EXCEPT !.options = FirstOptions(search, "en"),
                                !.results = ReplyTo(FirstOptions(search, "en"))]
    /\ pc' = "searched"
    /\ UNCHANGED <<filename, cfg, calls, tvShowInfo, movieInfo, tried, tvMatch, once, twice,
                   meta, name, fs, runVars, provider, callVars>>

\* lines 60-63: the first search fails
FirstSearchFails ==
    /\ pc = "SearchMovie"
    /\ ReplyTo(FirstOptions(search, "en")) = "error"
    /\ client' = GetSearchMovies(search.Title, FirstOptions(search, "en"))
    /\ search' = [search EXCEPT !.options = FirstOptions(search, "en"),
                                !.errMsg = "failed to search movie",
                                !.errArg = "client error"]
    /\ pc' = "returned"
    /\ UNCHANGED <<filename, cfg, calls, tvShowInfo, movieInfo, tried, tvMatch, once, twice,
                   meta, name, fs, runVars, provider, callVars>>

\* lines 65-69: the first search was empty and had a year; the search is
\* made again without the year
SecondSearch ==
    /\ pc = "searched"
    /\ search.results = "empty"
    /\ RetryWithoutYear(search)
    /\ ReplyTo(DeleteYear(search.options)) # "error"
    /\ client' = GetSearchMovies(search.Title, DeleteYear(search.options))
    /\ search' = [search EXCEPT !.options = DeleteYear(search.options),
                                !.results = ReplyTo(DeleteYear(search.options))]
    /\ pc' = "searchedAgain"
    /\ UNCHANGED <<filename, cfg, calls, tvShowInfo, movieInfo, tried, tvMatch, once, twice,
                   meta, name, fs, runVars, provider, callVars>>

\* lines 69-72: the second search fails
SecondSearchFails ==
    /\ pc = "searched"
    /\ search.results = "empty"
    /\ RetryWithoutYear(search)
    /\ ReplyTo(DeleteYear(search.options)) = "error"
    /\ client' = GetSearchMovies(search.Title, DeleteYear(search.options))
    /\ search' = [search EXCEPT !.options = DeleteYear(search.options),
                                !.errMsg = "failed to search movie",
                                !.errArg = "client error"]
    /\ pc' = "returned"
    /\ UNCHANGED <<filename, cfg, calls, tvShowInfo, movieInfo, tried, tvMatch, once, twice,
                   meta, name, fs, runVars, provider, callVars>>

\* lines 74-76: the results are still empty
NoMoviesFound ==
    /\ \/ pc = "searched" /\ ~RetryWithoutYear(search)
       \/ pc = "searchedAgain"
    /\ search.results = "empty"
    /\ Fails("no movies found matching", search.Title)
    /\ pc' = "returned"
    /\ UNCHANGED <<filename, cfg, calls, tvShowInfo, movieInfo, tried, tvMatch, once, twice,
                   meta, name, fs, runVars, client, provider, callVars>>

\* lines 79-97: the details of the first result are fetched and returned
MovieDetails ==
    /\ pc \in {"searched", "searchedAgain"}
    /\ search.results = "found"
    /\ client.details = "ok"
    /\ client' = GetMovieDetails(search.options)
    /\ meta' = [Title |-> search.Title, Year |-> client.releaseYear]
    /\ pc' = "returned"
    /\ UNCHANGED <<filename, cfg, calls, tvShowInfo, movieInfo, tried, tvMatch, once, twice,
                   name, fs, runVars, search, provider, callVars>>

\* lines 81-84: GetMovieDetails fails
MovieDetailsFails ==
    /\ pc \in {"searched", "searchedAgain"}
    /\ search.results = "found"
    /\ client.details = "error"
    /\ client' = GetMovieDetails(search.options)
    /\ Fails("failed to get movie details", "client error")
    /\ pc' = "returned"
    /\ UNCHANGED <<filename, cfg, calls, tvShowInfo, movieInfo, tried, tvMatch, once, twice,
                   meta, name, fs, runVars, provider, callVars>>

\* SearchMovie is called with any title and year, on a client with any
\* answers
InitSearch ==
    /\ search \in [Title : SearchTitles, Year : SearchYears,
                    options : {[language |-> "en", year |-> <<>>]},
                    results : {"none"}, errMsg : {"nil"}, errArg : {""}]
    /\ client \in [reply : [BOOLEAN -> SearchReplies], details : {"ok", "error"},
                    releaseYear : ReleaseYears, calls : {<<>>}]
    /\ provider = NewTMDbProvider("k")
    /\ CallIdle
    /\ pc = "SearchMovie"
    /\ filename = <<>>
    /\ cfg = DefaultConfig
    /\ meta = [Title |-> "", Year |-> 0]
    /\ name = <<>>
    /\ fs = [files |-> {}, mkdirs |-> {}, renames |-> <<>>]
    /\ flags = [b |-> FALSE]
    /\ queue = <<>>
    /\ log = <<>>
    /\ ret = Nil
    /\ ExtractorsIdle

NextSearch ==
    \/ FirstSearch
    \/ FirstSearchFails
    \/ SecondSearch
    \/ SecondSearchFails
    \/ NoMoviesFound
    \/ MovieDetails
    \/ MovieDetailsFails

SpecSearch == InitSearch /\ [][NextSearch]_vars

(* ------------------------------- C18 ----------------------------------- *)

\* the searches the client has received, in order
SearchCalls == SelectSeq(client.calls, LAMBDA c : c.fn = "GetSearchMovies")

\* every search made so far was answered with no result
AllSearchesEmpty ==
    \A i \in 1..Len(SearchCalls) : ReplyTo(SearchCalls[i].options) = "empty"

\* the last call the client received is a search that failed
LastCallFailedSearch ==
    /\ client.calls # <<>>
    /\ client.calls[Len(client.calls)].fn = "GetSearchMovies"
    /\ ReplyTo(client.calls[Len(client.calls)].options) = "error"

\* C18: with a year the first search carries the year and a second search,
\* by title only, is made exactly when the first was empty; without a year
\* one search is made; "no movies found matching <title>" is returned
\* exactly when every search was empty; a failed search is returned as
\* "failed to search movie" and is the last call made
C18_SearchWithYearThenWithout ==
    /\ Len(SearchCalls) <= 2
    /\ \A i \in 1..Len(SearchCalls) : SearchCalls[i].title = search.Title
    /\ pc = "returned" =>
          /\ Len(SearchCalls) >= 1
          /\ SearchCalls[1].options.year =
                 IF search.Year > 0 THEN Itoa(search.Year) ELSE <<>>
          /\ search.Year <= 0 => Len(SearchCalls) = 1
          /\ search.Year > 0 => (Len(SearchCalls) = 2 <=> client.reply[TRUE] = "empty")
          /\ Len(SearchCalls) = 2 => SearchCalls[2].options.year = <<>>
          /\ search.errMsg = "no movies found matching" <=>
                 AllSearchesEmpty /\ (search.Year > 0 => Len(SearchCalls) = 2)
          /\ search.errMsg = "no movies found matching" => search.errArg = search.Title
          /\ search.errMsg = "failed to search movie" <=> LastCallFailedSearch

\* C18 witness: SearchMovie returned "no movies found matching" after a
\* search with the year and a search without it, both empty
C18_Witness ==
    /\ pc = "returned"
    /\ search.Year > 0
    /\ Len(SearchCalls) = 2
    /\ SearchCalls[1].options.year = Itoa(search.Year)
    /\ SearchCalls[2].options.year = <<>>
    /\ search.errMsg = "no movies found matching"

(* ================ ValidateConfig and the provider factories ============ *)

\* the provider names and the keys a configuration file can hold
MovieProviderNames == {ProviderTMDb, ProviderOMDb, "unknown", ""}
TVProviderNames == {ProviderTVMaze, ProviderTVDb, "unknown", ""}
APIKeys == {"", "k"}

\* config.go, lines 38-62: the zero value of Config
EmptyConfig ==
    [TMDbAPIKey |-> "", OMDbAPIKey |-> "", TVDbAPIKey |-> "", BatchMode |-> FALSE,
     Recursive |-> FALSE, LowerCase |-> FALSE, SceneStyle |-> FALSE, Separator |-> <<>>,
     FileExtensions |-> {}, NoOverwrite |-> FALSE, NoMetadata |-> FALSE,
     MovieProvider |-> "", TVProvider |-> "", MovieFormat |-> <<>>, TVFormat |-> <<>>,
     EnableMetadata |-> FALSE, MovieDirectory |-> <<>>, TVDirectory |-> <<>>,
     OrganizeFiles |-> FALSE, PreviewMode |-> FALSE]

\* the default configuration with scene style switched on
SceneConfig == [DefaultConfig EXCEPT !.SceneStyle = TRUE, !.NoMetadata = TRUE]

\* the separators a configuration can hold
Separators == {<<" ">>, <<".">>, <<"_">>, <<"-">>, <<>>}

\* the default configuration with and without scene style, with each
\* separator, with and without the lookup that needs the missing key
SceneConfigs ==
    {[DefaultConfig EXCEPT !.SceneStyle = scene, !.Separator = sep, !.NoMetadata = noMeta] :
        scene \in BOOLEAN, sep \in Separators, noMeta \in BOOLEAN}

\* DefaultConfig with these providers, keys and lookup switches
ConfigOf(mp, tp, keys, noMeta, enable) ==
    [DefaultConfig EXCEPT !.MovieProvider = mp, !.TVProvider = tp,
                          !.TMDbAPIKey = keys[1], !.OMDbAPIKey = keys[2],
                          !.TVDbAPIKey = keys[3],
                          !.NoMetadata = noMeta, !.EnableMetadata = enable]

\* the configurations ValidateConfig and the factories are given
ProviderConfigs ==
    {ConfigOf(mp, tp, keys, noMeta, enable) :
        mp \in MovieProviderNames, tp \in TVProviderNames,
        keys \in APIKeys \X APIKeys \X APIKeys,
        noMeta \in BOOLEAN, enable \in BOOLEAN}
    \cup {EmptyConfig, SceneConfig} \cup SceneConfigs

\* config.go, lines 126-157: ValidateConfig(cfg)
ValidateConfig ==
    /\ pc = "config"
    /\ input' = cfg
    /\ cfg' = ValidatedConfig(cfg)
    /\ ret' = ValidateError(cfg)
    /\ pc' = "validated"
    /\ UNCHANGED <<filename, calls, tvShowInfo, movieInfo, tried, tvMatch, once, twice,
                   meta, name, fs, flags, queue, log, apiVars, output>>

\* CreateMovieProvider(cfg)
MovieProviderCreated ==
    /\ pc = "config"
    /\ provider' = CreateMovieProvider(cfg)
    /\ pc' = "CreateMovieProvider"
    /\ UNCHANGED <<filename, cfg, calls, tvShowInfo, movieInfo, tried, tvMatch, once, twice,
                   meta, name, fs, runVars, search, client, callVars>>

\* CreateTVShowProvider(cfg)
TVShowProviderCreated ==
    /\ pc = "config"
    /\ provider' = CreateTVShowProvider(cfg)
    /\ pc' = "CreateTVShowProvider"
    /\ UNCHANGED <<filename, cfg, calls, tvShowInfo, movieInfo, tried, tvMatch, once, twice,
                   meta, name, fs, runVars, search, client, callVars>>

InitConfig ==
    /\ cfg \in ProviderConfigs
    /\ pc = "config"
    /\ filename = <<>>
    /\ meta = [Title |-> <<>>]
    /\ name = <<>>
    /\ fs = [files |-> {}, mkdirs |-> {}, renames |-> <<>>]
    /\ flags = [b |-> FALSE]
    /\ queue = <<>>
    /\ log = <<>>
    /\ ret = Nil
    /\ ApiIdle
    /\ CallIdle
    /\ ExtractorsIdle

NextConfig ==
    \/ ValidateConfig
    \/ MovieProviderCreated
    \/ TVShowProviderCreated

SpecConfig == InitConfig /\ [][NextConfig]_vars

(* ------------------------------- C19 ----------------------------------- *)

\* the factory returned a provider of this type and no error
Gave(type) ==
    /\ provider.type = type
    /\ provider.provider # NoProvider
    /\ provider.err = Nil

\* the factory returned an error and no provider
GaveError ==
    /\ provider.err # Nil
    /\ provider.provider = NoProvider

LookupActive == ~cfg.NoMetadata /\ cfg.EnableMetadata

\* the provider the configuration selects needs a key and has none
SelectedKeyEmpty ==
    \/ cfg.MovieProvider = "tmdb" /\ cfg.TMDbAPIKey = ""
    \/ cfg.MovieProvider = "omdb" /\ cfg.OMDbAPIKey = ""
    \/ cfg.TVProvider = "tvdb" /\ cfg.TVDbAPIKey = ""

\* the configuration is the empty one, as ValidateConfig leaves it
WasEmptyConfig == cfg = WithDefaultFormats(EmptyConfig)

\* C20: ValidateConfig returns an error exactly when metadata lookup is
\* active and the key of the selected provider is empty; it returns nil in
\* every other case, the empty config included
C20_ValidateConfigKeys ==
    pc = "validated" =>
        /\ ret # Nil <=> LookupActive /\ SelectedKeyEmpty
        /\ WasEmptyConfig => ret = Nil

\* C20 witness: lookup is active, TVDb is selected without a key while the
\* movie provider has its key, and ValidateConfig returned an error
C20_Witness ==
    /\ pc = "validated"
    /\ LookupActive
    /\ cfg.MovieProvider = "tmdb" /\ cfg.TMDbAPIKey # ""
    /\ cfg.TVProvider = "tvdb" /\ cfg.TVDbAPIKey = ""
    /\ ret = "TVDb API key is required for metadata lookup"

\* C20 witness of the other side: the empty config was validated and no
\* error was returned
C20_EmptyConfigValid == pc = "validated" /\ WasEmptyConfig /\ ret = Nil

(* ===================== SaveConfig and LoadConfig ======================= *)
(* internal/pkg/config/config.go, lines 66-123 and 160-181                 *)

\* a byte that is no valid UTF-8, and the rune U+FFFD that encoding/json
\* puts in its place
InvalidByte == "<ff>"
ReplacementChar == "<fffd>"

\* config.go, lines 38-62: the fields of Config by type
StringFields ==
    {"TMDbAPIKey", "OMDbAPIKey", "TVDbAPIKey", "Separator", "Language", "MovieProvider",
     "TVProvider", "MovieFormat", "TVFormat", "MovieDirectory", "TVDirectory"}
BoolFields ==
    {"BatchMode", "Recursive", "LowerCase", "SceneStyle", "NoOverwrite", "NoMetadata",
     "PreviewMode", "EnableMetadata", "OrganizeFiles"}
SliceFields == {"FileExtensions"}
ConfigFields == StringFields \cup BoolFields \cup SliceFields

\* config.go, lines 38-62: the json tag of each field
Tag ==
    [TMDbAPIKey |-> "tmdb_api_key", OMDbAPIKey |-> "omdb_api_key",
     TVDbAPIKey |-> "tvdb_api_key", BatchMode |-> "batch_mode", Recursive |-> "recursive",
     LowerCase |-> "lowercase", SceneStyle |-> "scene_style", Separator |-> "separator",
     FileExtensions |-> "file_extensions", Language |-> "language",
     NoOverwrite |-> "no_overwrite", NoMetadata |-> "no_metadata",
     PreviewMode |-> "preview_mode", EnableMetadata |-> "enable_metadata",
     MovieProvider |-> "movie_provider", TVProvider |-> "tv_provider",
     MovieFormat |-> "movie_format", TVFormat |-> "tv_format",
     MovieDirectory |-> "movie_directory", TVDirectory |-> "tv_directory",
     OrganizeFiles |-> "organize_files"]

\* a []string: nil, or its items
NilSlice == [isNil |-> TRUE, items |-> <<>>]
SliceOf(items) == [isNil |-> FALSE, items |-> items]

\* a JSON value of the document: its kind, its text, and the texts of its
\* items when it is an array
JSONValue(kind, text, items) == [kind |-> kind, text |-> text, items |-> items]

\* json.Marshal of one character of a string: the quote and the backslash
\* are escaped, "<" is written <, an invalid byte becomes U+FFFD
EncodeChar(c) ==
    IF c = "\"" THEN <<"\\", "\"">>
    ELSE IF c = "\\" THEN <<"\\", "\\">>
    ELSE IF c = "<" THEN <<"\\", "u", "0", "0", "3", "c">>
    ELSE IF c = InvalidByte THEN <<ReplacementChar>>
    ELSE <<c>>

\* the pieces lo..hi of a sequence of sequences, joined
RECURSIVE Flatten(_, _, _)
Flatten(pieces, lo, hi) ==
    IF lo > hi THEN <<>>
    ELSE IF lo = hi THEN pieces[lo]
    ELSE Flatten(pieces, lo, (lo + hi) \div 2) \o Flatten(pieces, (lo + hi) \div 2 + 1, hi)

\* json.Marshal of the characters of a string
EncodeChars(str) == Flatten([i \in 1..Len(str) |-> EncodeChar(str[i])], 1, Len(str))

\* json.Marshal of a string: the text between quotes
EncodeString(str) == <<"\"">> \o EncodeChars(str) \o <<"\"">>

\* the character a \uXXXX escape stands for
UnicodeEscape(hex) == IF hex = <<"0", "0", "3", "c">> THEN "<" ELSE ReplacementChar

\* the backslashes that stand directly before position i
BackslashesBefore(t, i) ==
    Cardinality({j \in 1..(i - 1) : \A k \in j..(i - 1) : t[k] = "\\"})

\* position i begins an escape: a backslash that no backslash escapes
EscapeAt(t, i) ==
    i >= 1 /\ i < Len(t) /\ t[i] = "\\" /\ BackslashesBefore(t, i) % 2 = 0

\* position i begins a \uXXXX escape
UnicodeEscapeAt(t, i) == EscapeAt(t, i) /\ t[i + 1] = "u" /\ i + 5 <= Len(t)

\* position i is read as part of the escape that begins before it
InsideEscape(t, i) ==
    EscapeAt(t, i - 1) \/ \E j \in (i - 5)..(i - 2) : UnicodeEscapeAt(t, j)

\* what json.Unmarshal reads at position i
DecodeAt(t, i) ==
    IF InsideEscape(t, i) THEN <<>>
    ELSE IF UnicodeEscapeAt(t, i) THEN <<UnicodeEscape(SubSeq(t, i + 2, i + 5))>>
    ELSE IF EscapeAt(t, i) THEN <<t[i + 1]>>
    ELSE IF t[i] = InvalidByte THEN <<ReplacementChar>>
    ELSE <<t[i]>>

\* json.Unmarshal of the characters between the quotes
DecodeChars(t) == Flatten([i \in 1..Len(t) |-> DecodeAt(t, i)], 1, Len(t))

\* json.Unmarshal of a string
DecodeString(t) == DecodeChars(SubSeq(t, 2, Len(t) - 1))

\* json.Marshal of a bool
EncodeBool(b) == IF b THEN <<"t", "r", "u", "e">> ELSE <<"f", "a", "l", "s", "e">>

\* json.Marshal of a []string: null for a nil slice
EncodeSlice(sl) ==
    IF sl.isNil THEN JSONValue("null", <<"n", "u", "l", "l">>, <<>>)
    ELSE JSONValue("array", <<>>, [i \in 1..Len(sl.items) |-> EncodeString(sl.items[i])])

\* config.go, line 170: json.MarshalIndent(config) writes every field under
\* its tag
MarshalField(c, f) ==
    IF f \in StringFields THEN JSONValue("string", EncodeString(c[f]), <<>>)
    ELSE IF f \in BoolFields THEN JSONValue("bool", EncodeBool(c[f]), <<>>)
    ELSE EncodeSlice(c[f])

\* the field that carries this key
FieldOf(key) == CHOOSE f \in ConfigFields : Tag[f] = key

\* config.go, line 170: the document json.MarshalIndent writes
Marshal(c) ==
    [key \in {Tag[f] : f \in ConfigFields} |-> MarshalField(c, FieldOf(key))]

\* json.Unmarshal of a null into a slice that keeps what the slice held
UnmarshalSlice_KeepsOnNull(v, old) ==
    IF v.kind = "array" THEN SliceOf([i \in 1..Len(v.items) |-> DecodeString(v.items[i])])
    ELSE old

\* json.Unmarshal into a slice: null makes it nil, an array replaces its items
UnmarshalSlice(v, old) ==
    IF v.kind = "null" THEN NilSlice
    ELSE IF v.kind = "array"
    THEN SliceOf([i \in 1..Len(v.items) |-> DecodeString(v.items[i])])
    ELSE old

\* json.Unmarshal into one field: a key the document lacks, and a null for
\* a string or a bool, leave the field as it was
UnmarshalField(doc, f, old) ==
    IF Tag[f] \notin DOMAIN doc THEN old
    ELSE IF f \in SliceFields THEN UnmarshalSlice(doc[Tag[f]], old)
    ELSE IF f \in StringFields /\ doc[Tag[f]].kind = "string"
    THEN DecodeString(doc[Tag[f]].text)
    ELSE IF f \in BoolFields /\ doc[Tag[f]].kind = "bool"
    THEN doc[Tag[f]].text = <<"t", "r", "u", "e">>
    ELSE old

\* config.go, line 118: json.Unmarshal(configData, cfg)
Unmarshal(doc, c) == [f \in ConfigFields |-> UnmarshalField(doc, f, c[f])]

\* the eight extensions LoadConfig starts from
PresetExtensions ==
    <<ExtMp4, <<".", "m", "k", "v">>, <<".", "a", "v", "i">>, <<".", "m", "o", "v">>,
      <<".", "w", "m", "v">>, <<".", "m", "4", "v">>, <<".", "m", "p", "g">>,
      <<".", "m", "p", "e", "g">>>>

\* config.go, lines 74-92: the config LoadConfig unmarshals into
LoadPreset ==
    [TMDbAPIKey |-> <<>>, OMDbAPIKey |-> <<>>, TVDbAPIKey |-> <<>>, BatchMode |-> FALSE,
     Recursive |-> FALSE, LowerCase |-> FALSE, SceneStyle |-> FALSE, Separator |-> <<" ">>,
     FileExtensions |-> SliceOf(PresetExtensions), Language |-> <<"e", "n">>,
     NoOverwrite |-> FALSE, NoMetadata |-> FALSE, PreviewMode |-> FALSE,
     EnableMetadata |-> TRUE, MovieProvider |-> <<"t", "m", "d", "b">>,
     TVProvider |-> <<"t", "v", "m", "a", "z", "e">>, MovieFormat |-> DefaultMovieFormat,
     TVFormat |-> DefaultTVFormat, MovieDirectory |-> <<>>, TVDirectory |-> <<>>,
     OrganizeFiles |-> FALSE]

\* config.go, lines 189-212: DefaultConfig(), every string as its characters
StoredDefault ==
    [LoadPreset EXCEPT !.NoOverwrite = DefaultConfig.NoOverwrite,
                       !.FileExtensions =
                           SliceOf(PresetExtensions \o
                                   <<<<".", "w", "e", "b", "m">>, <<".", "f", "l", "v">>,
                                     <<".", "t", "s">>, <<".", "m", "2", "t", "s">>,
                                     <<".", "m", "t", "s">>, <<".", "m", "x", "f">>>>),
                       !.MovieDirectory = DefaultConfig.MovieDirectory,
                       !.TVDirectory = DefaultConfig.TVDirectory,
                       !.OrganizeFiles = DefaultConfig.OrganizeFiles]

\* config.go, lines 38-62: the zero value of Config
ZeroStored ==
    [f \in ConfigFields |->
        IF f \in StringFields THEN <<>> ELSE IF f \in BoolFields THEN FALSE ELSE NilSlice]

\* the strings, slices and configs SaveConfig is given
StoredStrings ==
    {<<>>, <<" ">>, <<"-">>, <<"\"">>, <<"\\">>, <<"a", "\\", "u">>, <<"<", "b">>,
     <<InvalidByte>>, <<"a", InvalidByte>>}
StoredSlices == {NilSlice, SliceOf(<<>>), SliceOf(<<ExtMp4, <<"\"">>>>)}
StoredConfigs ==
    {[base EXCEPT !.Separator = sep, !.FileExtensions = exts, !.LowerCase = lower,
                  !.EnableMetadata = enable] :
        base \in {StoredDefault, ZeroStored}, sep \in StoredStrings, exts \in StoredSlices,
        lower \in BOOLEAN, enable \in BOOLEAN}

\* the disk with and without the config file
NoConfigFile == [exists |-> FALSE, doc |-> <<>>]
ConfigFile(doc) == [exists |-> TRUE, doc |-> doc]

\* what LoadConfig returns
Loaded(c, err) == [cfg |-> c, err |-> err]

\* config.go, lines 160-181: SaveConfig(config) writes the file
SaveConfig ==
    /\ pc = "SaveConfig"
    /\ fs' = ConfigFile(Marshal(input))
    /\ ret' = Nil
    /\ pc' = "saved"
    /\ UNCHANGED <<filename, cfg, calls, tvShowInfo, movieInfo, tried, tvMatch, once, twice,
                   meta, name, flags, queue, log, apiVars, callVars>>

\* config.go, lines 164-178: the directory or the file cannot be written
SaveConfigFails ==
    /\ pc = "SaveConfig"
    /\ \E err \in {"error creating config directory", "error writing config file"} :
          ret' = err
    /\ pc' = "failed"
    /\ UNCHANGED <<filename, cfg, calls, tvShowInfo, movieInfo, tried, tvMatch, once, twice,
                   meta, name, fs, flags, queue, log, apiVars, callVars>>

\* config.go, lines 95-109: LoadConfig finds no file, saves DefaultConfig()
\* and returns it; the caller keeps what it got
LoadConfigCreates ==
    /\ pc = "LoadConfig"
    /\ ~fs.exists
    /\ fs' = ConfigFile(Marshal(StoredDefault))
    /\ input' = StoredDefault
    /\ output' = Loaded(StoredDefault, Nil)
    /\ pc' = "created"
    /\ UNCHANGED <<filename, cfg, calls, tvShowInfo, movieInfo, tried, tvMatch, once, twice,
                   meta, name, flags, queue, log, ret, apiVars>>

\* config.go, lines 111-122: LoadConfig reads the file into its preset
LoadConfigReads ==
    /\ pc \in {"saved", "created"}
    /\ fs.exists
    /\ output' = Loaded(Unmarshal(fs.doc, LoadPreset), Nil)
    /\ pc' = IF pc = "saved" THEN "loaded" ELSE "loadedAgain"
    /\ UNCHANGED <<filename, cfg, calls, tvShowInfo, movieInfo, tried, tvMatch, once, twice,
                   meta, name, fs, flags, queue, log, ret, apiVars, input>>

\* config.go, lines 112-115: the file cannot be read
LoadConfigFails ==
    /\ pc \in {"saved", "created"}
    /\ fs.exists
    /\ output' = Loaded(ZeroStored, "read error")
    /\ pc' = "failed"
    /\ UNCHANGED <<filename, cfg, calls, tvShowInfo, movieInfo, tried, tvMatch, once, twice,
                   meta, name, fs, flags, queue, log, ret, apiVars, input>>

\* SaveConfig is called with any config, or LoadConfig with no file
InitStore ==
    /\ \/ pc = "SaveConfig" /\ input \in StoredConfigs
       \/ pc = "LoadConfig" /\ input = ZeroStored
    /\ output = Loaded(ZeroStored, Nil)
    /\ fs = NoConfigFile
    /\ filename = <<>>
    /\ cfg = DefaultConfig
    /\ meta = [Title |-> <<>>]
    /\ name = <<>>
    /\ flags = [b |-> FALSE]
    /\ queue = <<>>
    /\ log = <<>>
    /\ ret = Nil
    /\ ApiIdle
    /\ ExtractorsIdle

NextStore ==
    \/ SaveConfig
    \/ SaveConfigFails
    \/ LoadConfigCreates
    \/ LoadConfigReads
    \/ LoadConfigFails

SpecStore == InitStore /\ [][NextStore]_vars

(* ------------------------------- C21 ----------------------------------- *)

\* LoadConfig has returned a config
HasLoaded == pc \in {"loaded", "loadedAgain"} /\ output.err = Nil

\* every string of the config is valid UTF-8
ValidUTF8(str) == \A i \in 1..Len(str) : str[i] # InvalidByte
ConfigValidUTF8(c) ==
    /\ \A f \in StringFields : ValidUTF8(c[f])
    /\ \A f \in SliceFields : \A i \in 1..Len(c[f].items) : ValidUTF8(c[f].items[i])

\* C21 as stated: LoadConfig after SaveConfig(c) returns c, field by field,
\* for every Config c, and a second LoadConfig returns what the first, which
\* created the file, returned
C21_SaveLoadRoundTrip == HasLoaded => \A f \in ConfigFields : output.cfg[f] = input[f]

\* C21 amended: the same for every Config whose strings are valid UTF-8
C21_SaveLoadRoundTripUTF8 ==
    HasLoaded /\ ConfigValidUTF8(input) => \A f \in ConfigFields : output.cfg[f] = input[f]

\* C21 witness: a config with a quote as separator, a nil extension list
\* and fields that differ from LoadConfig's preset was saved and loaded back
C21_Witness ==
    /\ pc = "loaded"
    /\ input.Separator = <<"\"">>
    /\ input.FileExtensions = NilSlice
    /\ input.LowerCase /\ ~input.EnableMetadata
    /\ output.cfg = input

\* C21 witness of the second half: the file was created by the first
\* LoadConfig and the second returned the same values
C21_CreatedThenLoaded == pc = "loadedAgain" /\ output.cfg = input /\ input = StoredDefault

(* ========================= package resolution ========================== *)
(* pkg/resolution/resolution.go                                            *)

\* resolution.go, lines 24-33: StandardResolutions, in the order of the code
StandardResolutions ==
    << [Name |-> <<"8", "K">>, Width |-> 7680, Height |-> 4320],
       [Name |-> <<"4", "K">>, Width |-> 3840, Height |-> 2160],
       [Name |-> <<"1", "4", "4", "0", "p">>, Width |-> 2560, Height |-> 1440],
       [Name |-> <<"1", "0", "8", "0", "p">>, Width |-> 1920, Height |-> 1080],
       [Name |-> <<"2", "K">>, Width |-> 2048, Height |-> 1080],
       [Name |-> <<"7", "2", "0", "p">>, Width |-> 1280, Height |-> 720],
       [Name |-> <<"4", "8", "0", "p">>, Width |-> 640, Height |-> 480],
       [Name |-> <<"3", "6", "0", "p">>, Width |-> 640, Height |-> 360] >>

\* fmt.Sprintf("%d", n)
FormatInt(n) == IF n < 0 THEN <<"-">> \o Itoa(-n) ELSE Itoa(n)

\* resolution.go, line 76: fmt.Sprintf("%dp", height)
HeightName(height) == FormatInt(height) \o <<"p">>

\* resolution.go, lines 57-61 and 97-101: the standard resolutions of
\* exactly this width and height, by index
ExactMatches(width, height) ==
    {i \in 1..Len(StandardResolutions) :
        width = StandardResolutions[i].Width /\ height = StandardResolutions[i].Height}

\* the first of a set of indices of StandardResolutions
FirstOf(indices) == CHOOSE i \in indices : \A j \in indices : i <= j

\* resolution.go, lines 66-73: 4K and 8K are named by the width
WidthName(width, height) ==
    IF height > 1440 /\ width >= 7000 THEN <<"8", "K">>
    ELSE IF height > 1440 /\ width >= 3800 THEN <<"4", "K">>
    ELSE HeightName(height)

\* resolution.go, lines 51-77
GetStandardResolution(width, height) ==
    IF height = 0 THEN <<"0", "p">>
    ELSE IF ExactMatches(width, height) # {}
    THEN StandardResolutions[FirstOf(ExactMatches(width, height))].Name
    ELSE WidthName(width, height)

\* resolution.go, lines 105-109: the standard resolutions that are not
\* higher than this height, by index
NotHigher(height) ==
    {i \in 1..Len(StandardResolutions) : height >= StandardResolutions[i].Height}

\* resolution.go, lines 91-113
GetClosestStandardResolution(width, height) ==
    IF height = 0 THEN <<"0", "p">>
    ELSE IF ExactMatches(width, height) # {}
    THEN StandardResolutions[FirstOf(ExactMatches(width, height))].Name
    ELSE IF NotHigher(height) # {}
    THEN StandardResolutions[FirstOf(NotHigher(height))].Name
    ELSE StandardResolutions[Len(StandardResolutions)].Name

\* the widths and heights the functions are called with
Widths == {-1, 0, 320, 640, 1280, 1600, 1920, 2048, 2560, 3440, 3840, 7680}
Heights ==
    {-1, 0, 240, 350, 360, 370, 480, 715, 720, 900, 1075, 1080, 1082, 1440, 2000, 2150,
     2160, 2170, 4320}

\* GetStandardResolution(width, height) is called
CallGetStandardResolution ==
    /\ pc = "resolution"
    /\ output' = GetStandardResolution(input.width, input.height)
    /\ pc' = "GetStandardResolution"
    /\ UNCHANGED <<filename, cfg, calls, tvShowInfo, movieInfo, tried, tvMatch, once, twice,
                   meta, name, fs, runVars, apiVars, input>>

\* GetClosestStandardResolution(width, height) is called
CallGetClosestStandardResolution ==
    /\ pc = "resolution"
    /\ output' = GetClosestStandardResolution(input.width, input.height)
    /\ pc' = "GetClosestStandardResolution"
    /\ UNCHANGED <<filename, cfg, calls, tvShowInfo, movieInfo, tried, tvMatch, once, twice,
                   meta, name, fs, runVars, apiVars, input>>

InitResolution ==
    /\ input \in [width : Widths, height : Heights]
    /\ output = <<>>
    /\ pc = "resolution"
    /\ filename = <<>>
    /\ cfg = DefaultConfig
    /\ RunIdle
    /\ ExtractorsIdle

NextResolution ==
    \/ CallGetStandardResolution
    \/ CallGetClosestStandardResolution

SpecResolution == InitResolution /\ [][NextResolution]_vars

(* ------------------------------- C22 ----------------------------------- *)

\* the names of the standard resolutions whose height is within 10 pixels
WithinTolerance(height) ==
    {StandardResolutions[i].Name : i \in
        {j \in 1..Len(StandardResolutions) :
            /\ height >= StandardResolutions[j].Height - 10
            /\ height <= StandardResolutions[j].Height + 10}}

\* C22: when no exact match exists and the height is within 10 pixels of a
\* standard height, GetStandardResolution returns that standard name
C22_TenPixelTolerance ==
    /\ pc = "GetStandardResolution"
    /\ ExactMatches(input.width, input.height) = {}
    /\ WithinTolerance(input.height) # {}
    => output \in WithinTolerance(input.height)

(* ------------------------------- C23 ----------------------------------- *)

\* the names of StandardResolutions
StandardNames == {StandardResolutions[i].Name : i \in 1..Len(StandardResolutions)}

\* C23: GetClosestStandardResolution returns, for every width and height,
\* one of the names of StandardResolutions
C23_ClosestIsStandard == pc = "GetClosestStandardResolution" => output \in StandardNames

(* ------------------------------- C24 ----------------------------------- *)

\* main has set up the configuration in this step
Configured == pc = "main" /\ pc' = "loop"

\* C24: the directory templates of the configuration file are the ones in
\* force when the flags --movie-dir and --tv-dir are not given
C24_ConfigDirectoriesUsed ==
    [][Configured =>
          /\ flags.movieDir = <<>> => cfg'.MovieDirectory = cfg.MovieDirectory
          /\ flags.tvDir = <<>> => cfg'.TVDirectory = cfg.TVDirectory]_vars

(* ------------------------------- C25 ----------------------------------- *)

\* ValidateConfig accepted a configuration with SceneStyle set; input is the
\* configuration as it was given
SceneValidated == pc = "validated" /\ ret = Nil /\ input.SceneStyle

C25_OtherSeparatorKept ==
    SceneValidated /\ input.Separator = <<"_">> /\ cfg.Separator = <<"_">>

(* ------------------------------- C26 ----------------------------------- *)

\* fragments of filenames with a season or an episode of 0
ZeroFrags ==
    { <<"a">>, <<" ">>,
      <<"S", "0", "0", "E", "0", "5">>,
      <<"S", "0", "2", "E", "0", "0">>,
      <<"S", "0", "1", "E", "0", "5">> }

ZeroPaths == {b \o ExtMp4 : b \in Concats(ZeroFrags, MaxFrags)}

\* processFile on these filenames
SpecZero == InitWith(ZeroPaths, Configs) /\ [][Next]_vars

\* a season/episode pattern matches the base name and the season or the
\* episode it captures is 0
ParsesAsZero(base) ==
    /\ MatchTV(base).matched
    /\ MatchTV(base).season = 0 \/ MatchTV(base).episode = 0

\* C26: a filename whose season or episode number parses as 0 is never sent
\* to the TV lookup, and it is handled as a movie whenever ExtractMovieInfo
\* returns a non-empty title for it
C26_ZeroIsNoEpisode ==
    (LookupEnabled /\ pc \notin {"start", "failed"} /\ ParsesAsZero(Basename(filename))) =>
        /\ pc # "processTVShow"
        /\ \A i \in 1..Len(calls) : calls[i] # "processTVShow"
        /\ ExtractMovieInfo(filename).Title # <<>> => pc = "processMovie"

\* C26 witness: a name with season 0 and episode 5 went to the movie handler
C26_Witness ==
    /\ pc = "processMovie"
    /\ MatchTV(Basename(filename)).matched
    /\ MatchTV(Basename(filename)).season = 0
    /\ MatchTV(Basename(filename)).episode = 5
    /\ movieInfo.Title # <<>>

(* ========================== SearchTVShow =============================== *)
(* internal/pkg/metadata/tvmaze.go, lines 89-207, and                      *)
(* unnamed/part_002, lines 418-526                                         *)

\* the searches ExtractTVShowInfo can hand to a provider
Seasons == {0, 1, 2}
Episodes == {0, 1, 5}
TVShowSearches == [Title : {"Breaking Bad", "Lost"}, Season : Seasons, Episode : Episodes]

\* what the server answers to the request for the episode: the transport
\* fails or not, the status, and a body that is the episode asked for or no
\* JSON at all
EpisodeReplies == [err : BOOLEAN, status : {200, 404}, body : {"episode", "garbage"}]

\* tvmaze.go, lines 95-147: the errors of the show lookup
TvMazeShowErrors ==
    {"failed to search TV show", "failed to read response", "failed to parse response",
     "no TV shows found matching", "failed to get show details"}

\* part_002, lines 427-472: the errors of the show lookup
TVDbShowErrors ==
    {"failed to search TV show", "failed to decode search response",
     "no TV shows found matching", "failed to get series details",
     "failed to decode series response", "failed to get seasons information",
     "failed to decode seasons response"}

\* tvmaze.go, lines 160-168: the metadata of the show; Season, Episode and
\* EpisodeTitle are not set and keep their zero values
TvMazeMetadata(s) ==
    [Title |-> s.Title, Year |-> 0, Season |-> 0, Episode |-> 0, EpisodeTitle |-> <<>>]

\* part_002, lines 490-500: the metadata of the show, with the season and
\* the episode of the search
TVDbMetadata(s) ==
    [Title |-> s.Title, Year |-> 0, Season |-> s.Season, Episode |-> s.Episode,
     EpisodeTitle |-> <<>>]

\* the episode title a body that is an episode carries
EpisodeName == <<"P", "i", "l", "o", "t">>

\* the provider that was asked is p
Asked(p) == pc = "SearchTVShow" /\ input.provider = p

\* the show of provider p was found and the episode is looked up next
AtEpisode(p) == pc = "episode" /\ input.provider = p

\* lines 171 and 503: the episode is looked up
WantsEpisode == input.search.Season > 0 /\ input.search.Episode > 0

\* the request for the episode is added to the requests made
EpisodeRequest(reply) ==
    [client EXCEPT !.calls = Append(@, [fn |-> "episode", season |-> input.search.Season,
                                        number |-> input.search.Episode, reply |-> reply])]

\* SearchTVShow returns nil and an error
ShowLookupFails(p, errors) ==
    /\ Asked(p)
    /\ \E e \in errors : output' = [metadata |-> Nil, err |-> e]
    /\ pc' = "returned"
    /\ UNCHANGED <<filename, cfg, calls, tvShowInfo, movieInfo, tried, tvMatch, once, twice,
                   meta, name, fs, runVars, apiVars, input>>

\* the show is found and its metadata is built
ShowFound(p, m) ==
    /\ Asked(p)
    /\ meta' = m
    /\ pc' = "episode"
    /\ UNCHANGED <<filename, cfg, calls, tvShowInfo, movieInfo, tried, tvMatch, once, twice,
                   name, fs, runVars, apiVars, callVars>>

\* lines 171/206 and 503/525: no episode is asked for
NoEpisodeWanted(p) ==
    /\ AtEpisode(p)
    /\ ~WantsEpisode
    /\ output' = [metadata |-> meta, err |-> Nil]
    /\ pc' = "returned"
    /\ UNCHANGED <<filename, cfg, calls, tvShowInfo, movieInfo, tried, tvMatch, once, twice,
                   meta, name, fs, runVars, apiVars, input>>

\* the request for the episode is made and SearchTVShow returns m
EpisodeLookedUp(p, reply, m) ==
    /\ AtEpisode(p)
    /\ WantsEpisode
    /\ client' = EpisodeRequest(reply)
    /\ output' = [metadata |-> m, err |-> Nil]
    /\ pc' = "returned"
    /\ UNCHANGED <<filename, cfg, calls, tvShowInfo, movieInfo, tried, tvMatch, once, twice,
                   meta, name, fs, runVars, search, provider, input>>

\* tvmaze.go, lines 95-147
TvMazeShowFails == ShowLookupFails("*metadata.TvMazeProvider", TvMazeShowErrors)

\* tvmaze.go, lines 149-168
TvMazeShowFound == ShowFound("*metadata.TvMazeProvider", TvMazeMetadata(input.search))

\* tvmaze.go, lines 171 and 206
TvMazeNoEpisode == NoEpisodeWanted("*metadata.TvMazeProvider")

\* tvmaze.go, lines 173-196: Get fails, the status is not 200 or the body is
\* no JSON: the metadata of the show is returned as it is
TvMazeEpisodeFails ==
    \E reply \in EpisodeReplies :
        /\ reply.err \/ reply.status # 200 \/ reply.body = "garbage"
        /\ EpisodeLookedUp("*metadata.TvMazeProvider", reply, meta)

\* tvmaze.go, lines 198-206: season, number and name of the episode are
\* taken from the answer
TvMazeEpisodeFound ==
    \E reply \in EpisodeReplies :
        /\ ~reply.err /\ reply.status = 200 /\ reply.body = "episode"
        /\ EpisodeLookedUp("*metadata.TvMazeProvider", reply,
                           [meta EXCEPT !.Season = input.search.Season,
                                        !.Episode = input.search.Episode,
                                        !.EpisodeTitle = EpisodeName])

\* part_002, lines 427-472
TVDbShowFails == ShowLookupFails("*metadata.TVDbProvider", TVDbShowErrors)

\* part_002, lines 474-500
TVDbShowFound == ShowFound("*metadata.TVDbProvider", TVDbMetadata(input.search))

\* part_002, lines 503 and 525
TVDbNoEpisode == NoEpisodeWanted("*metadata.TVDbProvider")

\* part_002, lines 507-517: sendRequest fails or the body is no JSON: the
\* metadata of the show is returned as it is
TVDbEpisodeFails ==
    \E reply \in EpisodeReplies :
        /\ reply.err \/ reply.body = "garbage"
        /\ EpisodeLookedUp("*metadata.TVDbProvider", reply, meta)

\* part_002, lines 519-525: the body is decoded, whatever the status, and
\* the name of the episode is taken from it
TVDbEpisodeFound ==
    \E reply \in EpisodeReplies :
        /\ ~reply.err /\ reply.body = "episode"
        /\ EpisodeLookedUp("*metadata.TVDbProvider", reply,
                           [meta EXCEPT !.EpisodeTitle =
                               IF reply.status = 200 THEN EpisodeName ELSE <<>>])

InitEpisode ==
    /\ input \in [provider : {"*metadata.TvMazeProvider", "*metadata.TVDbProvider"},
                  search : TVShowSearches]
    /\ output = <<>>
    /\ pc = "SearchTVShow"
    /\ filename = <<>>
    /\ cfg = DefaultConfig
    /\ RunIdle
    /\ ExtractorsIdle

NextEpisode ==
    \/ TvMazeShowFails
    \/ TvMazeShowFound
    \/ TvMazeNoEpisode
    \/ TvMazeEpisodeFails
    \/ TvMazeEpisodeFound
    \/ TVDbShowFails
    \/ TVDbShowFound
    \/ TVDbNoEpisode
    \/ TVDbEpisodeFails
    \/ TVDbEpisodeFound

SpecEpisode == InitEpisode /\ [][NextEpisode]_vars

(* ------------------------------- C28 ----------------------------------- *)

\* SearchTVShow has returned after a request for the episode that met a
\* network error, a status other than 200 or a body that cannot be decoded
EpisodeLookupFailed ==
    /\ pc = "returned"
    /\ client.calls # <<>>
    /\ \/ client.calls[1].reply.err
       \/ client.calls[1].reply.status # 200
       \/ client.calls[1].reply.body = "garbage"

\* the SxxEyy that generateTVFilename writes for metadata m
SxxEyy(m) ==
    SubstituteSeasonEpisode(<<"S">> \o TokSeason02 \o <<"E">> \o TokEpisode02, m)

\* C28: for every TV provider, when the show lookup succeeds but the episode
\* lookup fails, SearchTVShow returns no error and metadata that carries the
\* season and the episode that were requested, so that the generated
\* filename keeps the SxxEyy of the source file
C28_EpisodeFailureKeepsNumbers ==
    EpisodeLookupFailed =>
        /\ output.err = Nil
        /\ output.metadata.Season = input.search.Season
        /\ output.metadata.Episode = input.search.Episode
        /\ SxxEyy(output.metadata) = SxxEyy(input.search)

\* the same for the TVDb provider alone
C28_TVDbKeepsNumbers ==
    input.provider = "*metadata.TVDbProvider" => C28_EpisodeFailureKeepsNumbers

\* the TvMaze provider has returned S00E00 for S01E05 after the episode
\* request got a 404
C28_TvMazeLosesNumbers ==
    /\ EpisodeLookupFailed
    /\ input.provider = "*metadata.TvMazeProvider"
    /\ input.search.Season = 1 /\ input.search.Episode = 5
    /\ client.calls[1].reply = [err |-> FALSE, status |-> 404, body |-> "garbage"]
    /\ output.err = Nil
    /\ SxxEyy(output.metadata) = <<"S", "0", "0", "E", "0", "0">>

(* ====================== TVDbProvider.sendRequest ======================= *)
(* unnamed/part_002, lines 322-409                                         *)

\* the calls of sendRequest that are followed
MaxCalls == 2

\* the tokens the server hands out, one after the other
Tokens == <<"t1", "t2", "t3", "t4", "t5", "t6", "t7", "t8">>

\* the statuses the server answers a request with
Statuses == {200, 401, 404}

\* line 325: time.Now().Before(p.tokenExpiry) is kept as p.valid
TokenValid(p) == p.apiToken # "" /\ p.valid

\* the login that succeeds gives the next token of the server, or a body
\* without a token, and p.tokenExpiry lies 23 hours ahead
LoginReplies == {"token", "no token"}

\* lines 358-361
LoggedIn(p, reply) ==
    [p EXCEPT !.apiToken = IF reply = "token" THEN Tokens[client.logins + 1] ELSE "",
              !.valid = TRUE]

\* the request to /login is added to the requests made
LoginRequest(reply) ==
    [client EXCEPT !.calls = Append(@, [fn |-> "login", reply |-> reply]),
                   !.logins = IF reply = "token" THEN @ + 1 ELSE @]

\* lines 380 and 405: the header carries p.apiToken; lines 387 and 406: the
\* request is sent
DoRequest(token, status) ==
    [client EXCEPT !.calls = Append(@, [fn |-> "request", token |-> token, status |-> status])]

\* the token is kept when the answer is 401
Discard_Keeps(p) == p

\* line 395: p.apiToken = ""
Discard(p) == [p EXCEPT !.apiToken = ""]

\* lines 369 and 325-327: the token is still valid and is used
TokenReused ==
    /\ pc = "sendRequest"
    /\ TokenValid(provider)
    /\ pc' = "Do"
    /\ UNCHANGED <<filename, cfg, calls, tvShowInfo, movieInfo, tried, tvMatch, once, twice,
                   meta, name, fs, runVars, apiVars, callVars>>

\* lines 369 and 329-363: there is no valid token and the login succeeds
Login ==
    /\ pc = "sendRequest"
    /\ ~TokenValid(provider)
    /\ \E reply \in LoginReplies :
          /\ client' = LoginRequest(reply)
          /\ provider' = LoggedIn(provider, reply)
    /\ pc' = "Do"
    /\ UNCHANGED <<filename, cfg, calls, tvShowInfo, movieInfo, tried, tvMatch, once, twice,
                   meta, name, fs, runVars, search, callVars>>

\* lines 369-371 and 347-356: the login fails and sendRequest returns its
\* error
LoginFails ==
    /\ pc = "sendRequest"
    /\ ~TokenValid(provider)
    /\ client' = LoginRequest("error")
    /\ output' = [status |-> 0, err |-> "failed to execute login request"]
    /\ pc' = "returned"
    /\ UNCHANGED <<filename, cfg, calls, tvShowInfo, movieInfo, tried, tvMatch, once, twice,
                   meta, name, fs, runVars, search, provider, input>>

\* lines 387-390: the request cannot be sent
DoFails ==
    /\ pc = "Do"
    /\ client' = DoRequest(provider.apiToken, 0)
    /\ output' = [status |-> 0, err |-> "client error"]
    /\ pc' = "returned"
    /\ UNCHANGED <<filename, cfg, calls, tvShowInfo, movieInfo, tried, tvMatch, once, twice,
                   meta, name, fs, runVars, search, provider, input>>

\* lines 387-393 and 409: the answer is not 401 and is returned
DoAnswered ==
    /\ pc = "Do"
    /\ \E status \in Statuses \ {401} :
          /\ client' = DoRequest(provider.apiToken, status)
          /\ output' = [status |-> status, err |-> Nil]
    /\ pc' = "returned"
    /\ UNCHANGED <<filename, cfg, calls, tvShowInfo, movieInfo, tried, tvMatch, once, twice,
                   meta, name, fs, runVars, search, provider, input>>

\* lines 387-395: the answer is 401 and the token is discarded
DoUnauthorized ==
    /\ pc = "Do"
    /\ client' = DoRequest(provider.apiToken, 401)
    /\ provider' = Discard(provider)
    /\ pc' = "refresh"
    /\ UNCHANGED <<filename, cfg, calls, tvShowInfo, movieInfo, tried, tvMatch, once, twice,
                   meta, name, fs, runVars, search, callVars>>

\* lines 396 and 323-363: getToken logs in unless it finds a token that is
\* still valid, and the login succeeds
RefreshLogin ==
    /\ pc = "refresh"
    /\ \E reply \in LoginReplies :
          IF TokenValid(provider)
          THEN UNCHANGED <<client, provider>>
          ELSE /\ client' = LoginRequest(reply)
               /\ provider' = LoggedIn(provider, reply)
    /\ pc' = "retry"
    /\ UNCHANGED <<filename, cfg, calls, tvShowInfo, movieInfo, tried, tvMatch, once, twice,
                   meta, name, fs, runVars, search, callVars>>

\* lines 396-398: the new login fails and its error is returned
RefreshFails ==
    /\ pc = "refresh"
    /\ ~TokenValid(provider)
    /\ client' = LoginRequest("error")
    /\ output' = [status |-> 0, err |-> "failed to execute login request"]
    /\ pc' = "returned"
    /\ UNCHANGED <<filename, cfg, calls, tvShowInfo, movieInfo, tried, tvMatch, once, twice,
                   meta, name, fs, runVars, search, provider, input>>

\* lines 401-402: the request is sent again and what comes back is returned
Retry ==
    /\ pc = "retry"
    /\ \E status \in Statuses :
          /\ client' = DoRequest(provider.apiToken, status)
          /\ output' = [status |-> status, err |-> Nil]
    /\ pc' = "returned"
    /\ UNCHANGED <<filename, cfg, calls, tvShowInfo, movieInfo, tried, tvMatch, once, twice,
                   meta, name, fs, runVars, search, provider, input>>

\* lines 401-402: the request cannot be sent again
RetryFails ==
    /\ pc = "retry"
    /\ client' = DoRequest(provider.apiToken, 0)
    /\ output' = [status |-> 0, err |-> "client error"]
    /\ pc' = "returned"
    /\ UNCHANGED <<filename, cfg, calls, tvShowInfo, movieInfo, tried, tvMatch, once, twice,
                   meta, name, fs, runVars, search, provider, input>>

\* the provider as sendRequest finds it when it is called
CallOf(n, p) == [n |-> n, apiToken |-> p.apiToken, valid |-> p.valid]

\* SearchTVShow calls sendRequest again; the requests of the call before are
\* forgotten
CallAgain ==
    /\ pc = "returned"
    /\ input.n < MaxCalls
    /\ input' = CallOf(input.n + 1, provider)
    /\ output' = <<>>
    /\ client' = [client EXCEPT !.calls = <<>>]
    /\ pc' = "sendRequest"
    /\ UNCHANGED <<filename, cfg, calls, tvShowInfo, movieInfo, tried, tvMatch, once, twice,
                   meta, name, fs, runVars, search, provider>>

\* between two calls the clock passes p.tokenExpiry
TokenExpires ==
    /\ pc = "returned"
    /\ provider.valid
    /\ provider' = [provider EXCEPT !.valid = FALSE]
    /\ UNCHANGED <<filename, cfg, calls, tvShowInfo, movieInfo, tried, tvMatch, once, twice,
                   meta, name, fs, runVars, search, client, callVars, pc>>

InitToken ==
    /\ \E token \in {"", "t0"}, valid \in BOOLEAN :
          /\ provider = [type |-> "*metadata.TVDbProvider", apiToken |-> token, valid |-> valid]
          /\ input = CallOf(1, provider)
    /\ client = [calls |-> <<>>, logins |-> 0]
    /\ search = [Title |-> "", Year |-> 0]
    /\ output = <<>>
    /\ pc = "sendRequest"
    /\ filename = <<>>
    /\ cfg = DefaultConfig
    /\ meta = [Title |-> <<>>]
    /\ name = <<>>
    /\ fs = [files |-> {}, mkdirs |-> {}, renames |-> <<>>]
    /\ flags = [b |-> FALSE]
    /\ queue = <<>>
    /\ log = <<>>
    /\ ret = "nil"
    /\ ExtractorsIdle

NextToken ==
    \/ TokenReused
    \/ Login
    \/ LoginFails
    \/ DoFails
    \/ DoAnswered
    \/ DoUnauthorized
    \/ RefreshLogin
    \/ RefreshFails
    \/ Retry
    \/ RetryFails
    \/ CallAgain
    \/ TokenExpires

SpecToken == InitToken /\ [][NextToken]_vars

(* ------------------------------- C29 ----------------------------------- *)

\* the positions of the requests of this call that carry the request itself,
\* and those that are logins
Sends == {k \in 1..Len(client.calls) : client.calls[k].fn = "request"}
Logins == {k \in 1..Len(client.calls) : client.calls[k].fn = "login"}

\* the first and the last time the request was sent in this call
FirstSend == Least(Sends)
LastSend == CHOOSE k \in Sends : \A j \in Sends : j <= k

\* the request is never sent more than twice in one call
AtMostTwice == Cardinality(Sends) <= 2

\* a second send follows a 401 and a new login, and carries the token that
\* login gave, which is the token the provider now holds
RetryAfterLogin ==
    Cardinality(Sends) = 2 =>
        /\ client.calls[FirstSend].status = 401
        /\ LastSend = FirstSend + 2
        /\ client.calls[FirstSend + 1].fn = "login"
        /\ client.calls[FirstSend + 1].reply # "error"
        /\ client.calls[LastSend].token = provider.apiToken
        /\ client.calls[FirstSend + 1].reply = "token" =>
              /\ client.calls[LastSend].token = Tokens[client.logins]
              /\ client.calls[LastSend].token # client.calls[FirstSend].token

\* after a 401 the token is discarded and a login is made before anything
\* else happens
LoginAfter401 ==
    /\ pc = "refresh" => provider.apiToken = ""
    /\ Sends # {} /\ client.calls[FirstSend].status = 401 /\ pc \in {"retry", "returned"} =>
          FirstSend + 1 \in Logins

\* what the retry got is what the caller gets, a 401 too
RetryReturned ==
    pc = "returned" /\ Cardinality(Sends) = 2 =>
        /\ output.status = client.calls[LastSend].status
        /\ output.err = IF client.calls[LastSend].status = 0 THEN "client error" ELSE Nil

\* a token that is not empty and not expired when sendRequest is called is
\* sent with the first request, and no login comes before
ValidTokenReused ==
    input.apiToken # "" /\ input.valid /\ Sends # {} =>
        /\ FirstSend = 1
        /\ client.calls[1].token = input.apiToken

\* sendRequest has returned after a first answer of 401
Returned401 == pc = "returned" /\ Sends # {} /\ client.calls[FirstSend].status = 401

\* C29 as stated: the request is sent at most twice per call; a 401 makes
\* sendRequest discard the token, log in again and send the request exactly
\* once more with the new token; what the retry got is returned, a 401 too;
\* a token that is not empty and not expired is reused without a login
C29_RetryOnceOn401 ==
    /\ AtMostTwice
    /\ RetryAfterLogin
    /\ LoginAfter401
    /\ Returned401 => Cardinality(Sends) = 2
    /\ RetryReturned
    /\ ValidTokenReused

\* C29 amended: as stated, but the request is sent again only when the new
\* login succeeds; when it fails sendRequest returns the error of the login
\* and the request has been sent once
C29_RetryOnceAfterLogin ==
    /\ AtMostTwice
    /\ RetryAfterLogin
    /\ LoginAfter401
    /\ Returned401 =>
          IF client.calls[FirstSend + 1].reply = "error"
          THEN /\ Cardinality(Sends) = 1
               /\ output.err = "failed to execute login request"
          ELSE Cardinality(Sends) = 2
    /\ RetryReturned
    /\ ValidTokenReused

\* C29 witness: the request got 401 with the old token, a login gave a new
\* token, the retry with it got 401 again and that 401 was returned
C29_Witness ==
    /\ pc = "returned"
    /\ Cardinality(Sends) = 2
    /\ client.calls[FirstSend].token = "t0"
    /\ client.calls[LastSend].token = "t1"
    /\ client.calls[LastSend].status = 401
    /\ output = [status |-> 401, err |-> Nil]

\* the second call of sendRequest used the token of the first without a login
C29_TokenReusedWitness ==
    /\ pc = "returned"
    /\ input.n = 2
    /\ input.apiToken = "t1"
    /\ Logins = {}
    /\ output.status = 200

\* the new login failed after a 401 and the request was not sent again
C29_LoginFailedWitness ==
    /\ Returned401
    /\ Cardinality(Sends) = 1
    /\ output.err = "failed to execute login request"

(* ========================== FormatFileSize ============================= *)
(* unnamed/part_005, lines 167-205                                         *)

\* a float64 that holds a whole number below 2^53 is kept exactly, as two
\* limbs hi * Limb + lo
Limb == 1024 * 1024

\* v * 10 + d
Times10Plus(v, d) ==
    [hi |-> v.hi * 10 + ((v.lo * 10 + d) \div Limb), lo |-> (v.lo * 10 + d) % Limb]

\* the number a string of decimal digits writes
RECURSIVE ParseDigits(_, _, _)
ParseDigits(s, i, v) ==
    IF i > Len(s) THEN v ELSE ParseDigits(s, i + 1, Times10Plus(v, DigitVal(s[i])))

\* s is one decimal digit or more
AllDigits(s) == s # <<>> /\ \A i \in 1..Len(s) : IsDigit(s[i])

\* line 182: strconv.ParseFloat(sizeStr, 64) on the strings of SizeStrs: a
\* whole number with or without a minus sign, an infinity, a NaN, or an
\* error
ParseFloat(s) ==
    IF AllDigits(s)
    THEN [err |-> Nil, kind |-> "finite", neg |-> FALSE, v |-> ParseDigits(s, 1, [hi |-> 0, lo |-> 0])]
    ELSE IF Len(s) > 1 /\ s[1] = "-" /\ AllDigits(Tail(s))
    THEN [err |-> Nil, kind |-> "finite", neg |-> TRUE,
          v |-> ParseDigits(Tail(s), 1, [hi |-> 0, lo |-> 0])]
    ELSE IF ToLower(s) \in {<<"i", "n", "f">>, <<"+", "i", "n", "f">>}
    THEN [err |-> Nil, kind |-> "+Inf", neg |-> FALSE, v |-> [hi |-> 0, lo |-> 0]]
    ELSE IF ToLower(s) = <<"n", "a", "n">>
    THEN [err |-> Nil, kind |-> "NaN", neg |-> FALSE, v |-> [hi |-> 0, lo |-> 0]]
    ELSE [err |-> "invalid syntax", kind |-> "finite", neg |-> FALSE, v |-> [hi |-> 0, lo |-> 0]]

\* line 187: const unit = 1024.0
unit == 1024

\* n >= unit
AtLeastUnit(n) == n.hi > 0 \/ n.lo >= unit

\* the whole part of n / unit
DivUnit(n) == [hi |-> n.hi \div unit, lo |-> (n.hi % unit) * unit + (n.lo \div unit)]

\* lines 191-195: the loop counts in exp how often n can be divided by unit
\* and stay at unit or above
RECURSIVE LoopExp(_, _)
LoopExp(n, exp) == IF AtLeastUnit(n) THEN LoopExp(DivUnit(n), exp + 1) ELSE exp

\* v * 100
Times100(v) == [hi |-> v.hi * 100 + ((v.lo * 100) \div Limb), lo |-> (v.lo * 100) % Limb]

\* the whole part of size * 100 / div for div = unit^(exp + 1), and how what
\* is left compares with one half: -1 below, 0 equal, 1 above
Hundredths(n, exp) ==
    IF exp = 0
    THEN [q |-> n.hi * unit + (n.lo \div unit),
          half |-> IF n.lo % unit > 512 THEN 1 ELSE IF n.lo % unit = 512 THEN 0 ELSE -1]
    ELSE IF exp = 1
    THEN [q |-> n.hi,
          half |-> IF n.lo > 524288 THEN 1 ELSE IF n.lo = 524288 THEN 0 ELSE -1]
    ELSE [q |-> n.hi \div unit,
          half |-> IF n.hi % unit > 512 \/ (n.hi % unit = 512 /\ n.lo > 0) THEN 1
                   ELSE IF n.hi % unit = 512 /\ n.lo = 0 THEN 0 ELSE -1]

\* the nearest whole number, the even one of two that are as near
RoundHalfEven(h) ==
    IF h.half = 1 \/ (h.half = 0 /\ h.q % 2 = 1) THEN h.q + 1 ELSE h.q

\* fmt.Sprintf("%.2f", x) for x = q / 100
TwoDecimals(q) == Itoa(q \div 100) \o <<".">> \o Pad2(q % 100)

\* the function returns the string text
Returns(text) == [kind |-> "string", text |-> text]

\* the function panics: index out of range
Panics(index) == [kind |-> "panic", text |-> <<"index out of range", index>>]

\* the function does not return
NeverReturns == [kind |-> "no return", text |-> <<>>]

\* line 196: "KMG"[exp]
KMG == <<"K", "M", "G">>

\* lines 191-196 for a whole number of unit or more
FormatUnits(v) ==
    IF LoopExp(DivUnit(v), 0) + 1 > Len(KMG)
    THEN Panics(LoopExp(DivUnit(v), 0))
    ELSE Returns(TwoDecimals(RoundHalfEven(Hundredths(Times100(v), LoopExp(DivUnit(v), 0))))
                 \o <<" ", KMG[LoopExp(DivUnit(v), 0) + 1], "B">>)

\* lines 187-196 for the float size: an infinity stays an infinity when it
\* is divided, so the loop does not end; a NaN is neither below unit nor at
\* unit or above
FormatFloat(size) ==
    IF size.kind = "+Inf" THEN NeverReturns
    ELSE IF size.kind = "NaN" THEN Returns(<<"N", "a", "N", " ", "K", "B">>)
    ELSE IF size.neg THEN Returns(<<"-">> \o Itoa(size.v.lo) \o <<" ", "B">>)
    ELSE IF ~AtLeastUnit(size.v) THEN Returns(Itoa(size.v.lo) \o <<" ", "B">>)
    ELSE FormatUnits(size.v)

\* lines 178-197
FormatFileSize(sizeStr) ==
    IF sizeStr = <<>> THEN Returns(<<"N", "/", "A">>)
    ELSE IF ParseFloat(sizeStr).err # Nil
    THEN Returns(sizeStr \o <<" ", "b", "y", "t", "e", "s">>)
    ELSE FormatFloat(ParseFloat(sizeStr))

\* lines 203-205
FormatSize(sizeStr) == FormatFileSize(sizeStr)

\* the sizes the functions are called with
SizeStrs ==
    {<<"0">>, <<"1">>, <<"9">>, <<"1", "0", "0">>, <<"5", "1", "2">>, <<"1", "0", "2", "3">>,
      <<"1", "0", "2", "4">>, <<"1", "0", "2", "5">>, <<"1", "1", "5", "2">>,
      <<"1", "4", "0", "8">>, <<"1", "5", "3", "6">>, <<"2", "0", "4", "7">>,
      <<"2", "0", "4", "8">>, <<"1", "0", "2", "4", "0">>, <<"6", "5", "5", "3", "6">>,
      <<"1", "0", "4", "8", "5", "7", "5">>, <<"1", "0", "4", "8", "5", "7", "6">>,
      <<"1", "0", "4", "8", "5", "7", "7">>, <<"1", "5", "7", "2", "8", "6", "4">>,
      <<"5", "2", "4", "2", "8", "8", "0">>, <<"1", "0", "4", "8", "5", "7", "6", "0", "0">>,
      <<"1", "0", "7", "3", "7", "4", "1", "8", "2", "3">>,
      <<"1", "0", "7", "3", "7", "4", "1", "8", "2", "4">>,
      <<"1", "6", "1", "0", "6", "1", "2", "7", "3", "6">>,
      <<"2", "1", "4", "7", "4", "8", "3", "6", "4", "8">>,
      <<"4", "2", "9", "4", "9", "6", "7", "2", "9", "6">>,
      <<"1", "0", "7", "3", "7", "4", "1", "8", "2", "4", "0">>,
      <<"1", "0", "7", "3", "7", "4", "1", "8", "2", "4", "0", "0">>,
      <<"1", "0", "9", "9", "5", "1", "1", "6", "2", "7", "7", "7", "5">>,
      <<"1", "0", "9", "9", "5", "1", "1", "6", "2", "7", "7", "7", "6">>,
      <<"1", "0", "9", "9", "5", "1", "1", "6", "2", "7", "7", "7", "7">>,
      <<"2", "1", "9", "9", "0", "2", "3", "2", "5", "5", "5", "5", "2">>,
      <<"1", "1", "2", "5", "8", "9", "9", "9", "0", "6", "8", "4", "2", "6", "2", "4">>, <<>>,
      <<"n", "o", "t", "-", "a", "-", "s", "i", "z", "e">>, <<"a", "b", "c">>,
      <<"1", "2", "a">>, <<"1", " ", "G", "B">>, <<"-", "5">>, <<"I", "n", "f">>,
      <<"N", "a", "N">>}

\* FormatFileSize(sizeStr) is called
CallFormatFileSize ==
    /\ pc = "media"
    /\ output' = FormatFileSize(input)
    /\ pc' = "FormatFileSize"
    /\ UNCHANGED <<filename, cfg, calls, tvShowInfo, movieInfo, tried, tvMatch, once, twice,
                   meta, name, fs, runVars, apiVars, input>>

\* FormatSize(sizeStr) is called
CallFormatSize ==
    /\ pc = "media"
    /\ output' = FormatSize(input)
    /\ pc' = "FormatSize"
    /\ UNCHANGED <<filename, cfg, calls, tvShowInfo, movieInfo, tried, tvMatch, once, twice,
                   meta, name, fs, runVars, apiVars, input>>

InitSize ==
    /\ input \in SizeStrs
    /\ output = <<>>
    /\ pc = "media"
    /\ filename = <<>>
    /\ cfg = DefaultConfig
    /\ RunIdle
    /\ ExtractorsIdle

NextSize == CallFormatFileSize \/ CallFormatSize

SpecSize == InitSize /\ [][NextSize]_vars

(* ------------------------------- C30 ----------------------------------- *)

\* text ends with a space and the unit
HasUnit(text, u) ==
    /\ Len(text) > Len(u) + 1
    /\ SubSeq(text, Len(text) - Len(u), Len(text)) = <<" ">> \o u

\* the units of the claim
SizeUnits == {<<"B">>, <<"K", "B">>, <<"M", "B">>, <<"G", "B">>}

\* C30: FormatFileSize and FormatSize return a string for every input and
\* never panic: "N/A" for the empty string, the input followed by " bytes"
\* for an input that is no number, and a value with the unit B, KB, MB or GB
\* for every number, those of 1024^4 and more too
C30_AlwaysAString ==
    pc \in {"FormatFileSize", "FormatSize"} =>
        /\ output.kind = "string"
        /\ input = <<>> => output.text = <<"N", "/", "A">>
        /\ input # <<>> /\ ParseFloat(input).err # Nil =>
              output.text = input \o <<" ", "b", "y", "t", "e", "s">>
        /\ input # <<>> /\ ParseFloat(input).err = Nil =>
              \E u \in SizeUnits : HasUnit(output.text, u)

\* the same for the whole numbers below 1024^4, the empty string and the
\* inputs that are no numbers
C30_BelowTiB ==
    \/ ParseFloat(input).kind = "+Inf"
    \/ ParseFloat(input).v.hi >= Limb
    \/ C30_AlwaysAString

\* FormatFileSize panics for 1024^4 bytes
C30_PanicsAtTiB ==
    /\ pc = "FormatFileSize"
    /\ input = <<"1", "0", "9", "9", "5", "1", "1", "6", "2", "7", "7", "7", "6">>
    /\ output = Panics(3)

\* the sizes next to the limits of the units are formatted as the tests of
\* video_test.go expect
C30_Boundaries ==
    /\ FormatFileSize(<<"1", "0", "0">>) = Returns(<<"1", "0", "0", " ", "B">>)
    /\ FormatFileSize(<<"1", "0", "2", "4">>) = Returns(<<"1", ".", "0", "0", " ", "K", "B">>)
    /\ FormatFileSize(<<"1", "0", "4", "8", "5", "7", "5">>) = Returns(<<"1", "0", "2", "4", ".", "0", "0", " ", "K", "B">>)
    /\ FormatFileSize(<<"1", "0", "4", "8", "5", "7", "6">>) = Returns(<<"1", ".", "0", "0", " ", "M", "B">>)
    /\ FormatFileSize(<<"1", "0", "7", "3", "7", "4", "1", "8", "2", "4">>) = Returns(<<"1", ".", "0", "0", " ", "G", "B">>)
    /\ FormatFileSize(<<"1", "1", "5", "2">>) = Returns(<<"1", ".", "1", "2", " ", "K", "B">>)
    /\ FormatFileSize(<<"1", "4", "0", "8">>) = Returns(<<"1", ".", "3", "8", " ", "K", "B">>)
    /\ FormatFileSize(<<"1", "0", "9", "9", "5", "1", "1", "6", "2", "7", "7", "7", "5">>) = Returns(<<"1", "0", "2", "4", ".", "0", "0", " ", "G", "B">>)

==========================================================================
